---- MODULE Spec2Model ----
(***************************************************************************)
(* Bookmark manager (bookwise-web-archive): the import / merge pipeline    *)
(* of ImportBookmarks.processFile and useBookmarks, the URL normalizer and *)
(* the HTML bookmark parser, as state machines.                            *)
(*                                                                         *)
(* Strings whose characters matter (URLs, titles, query keys) are tuples   *)
(* of one-character strings, so that toLowerCase, startsWith, includes,    *)
(* split and the URL parser work on characters as the code does.           *)
(***************************************************************************)
EXTENDS Integers, Sequences, FiniteSets, TLC

VARIABLES
    bookmarks,      \* useBookmarks: the collection (allBookmarks)
    hook,           \* which version of the useBookmarks hook is mounted
    useAI,          \* ImportBookmarks: the three switches of the widget
    autoDedupe,
    mergeMetadata,
    widget,         \* ImportBookmarks: isProcessing, isSuccess, error, duplicatesFound
    bwidget,        \* BrowserImport: isLoading, success, error, progress
    nextId,         \* the next identifier uuid() hands out
    now,            \* the clock read by new Date(); every import happens later
                    \* than the one before
    lastOp,         \* history: the last operation and its inputs
    nImports,       \* history: imports so far
    nUiOps,         \* history: card and toolbar operations so far
    nToggles,       \* history: flips of the switches so far
    stored,         \* localStorage under STORAGE_KEY: the saved text (option)
    filterOptions,  \* useBookmarks: search, tags, sortBy, sortDirection
    nin1,       \* URL normalizer harness: first input string
    nin2,       \* second input string, related to the first by nrel
    nrel,       \* how nin2 was derived from nin1
    nout1,      \* normalizeUrl(nin1), once computed (option)
    nout2,      \* normalizeUrl(nin2), once computed (option)
    nagain,     \* normalizeUrl(normalizeUrl(nin1)), once computed (option)
    npc,        \* position of the harness
    pdoc,       \* parser harness: the <a> elements of the document
    pout,       \* parseBookmarksHtml of the document, once computed (option)
    ppc,        \* position of the harness
    ein,        \* enhancement harness: the bookmarks given to enhanceBookmarksWithAI
    eout,       \* what happens to each of them (fetch outcome or canvas failure)
    ebatch,     \* batchSize
    ei,         \* the loop variable i
    eres,       \* enhancedBookmarks
    eprog,      \* the processed values onProgress was called with, in order
    epc,        \* position of the loop
    rbase,      \* overlap harness: the collection before the two runs
    runs,       \* the two runs of processFile: position, file, pending batch
    rover,      \* a run started while the other awaited its enhancement
    cbrowser,   \* tree conversion harness: getBrowserType()
    ctree,      \* the tree of bookmarks.getTree
    cout,       \* what importFromBrowser resolved with (option)
    cpc,        \* position of the harness
    cache,      \* service worker harness: the cache bookwise-cache-v1
    reqs,       \* the fetch events so far, each with the position of its handler
    netver,     \* the number of responses the network has given
    users,      \* auth harness: the users object of the render in use
    currentUser,
    localStore,     \* localStorage: bookwise_user and bookwise_token (option)
    sessionStore,   \* sessionStorage: the same two keys (option)
    dirty,      \* a state change of AuthProvider waits for its re-render
    aclock,     \* Date.now()
    acalls,     \* history: the calls of signup, login and logout, in order
    gbookmarks,     \* grid harness: the bookmarks prop of BookmarkGrid
    selection,      \* BookmarkGrid: the selected ids
    isSelectionMode,
    shareDialogOpen,
    gclicks     \* history: the clicks so far

normVars == <<nin1, nin2, nrel, nout1, nout2, nagain, npc>>

parseVars == <<pdoc, pout, ppc>>

enhVars == <<ein, eout, ebatch, ei, eres, eprog, epc>>

raceVars == <<rbase, runs, rover>>

convVars == <<cbrowser, ctree, cout, cpc>>

swVars == <<cache, reqs, netver>>

authVars == <<users, currentUser, localStore, sessionStore, dirty, aclock, acalls>>

gridVars == <<gbookmarks, selection, isSelectionMode, shareDialogOpen, gclicks>>

sideVars == <<convVars, swVars, authVars, gridVars>>

harnessVars == <<normVars, parseVars, enhVars, raceVars, sideVars>>

collVars == <<bookmarks, hook, useAI, autoDedupe, mergeMetadata, widget, bwidget,
              nextId, now, lastOp, nImports, nUiOps, nToggles, stored,
              filterOptions>>

vars == <<bookmarks, hook, useAI, autoDedupe, mergeMetadata, widget, bwidget,
          nextId, now, lastOp, nImports, nUiOps, nToggles, stored, filterOptions,
          nin1, nin2, nrel, nout1, nout2, nagain, npc,
          pdoc, pout, ppc,
          ein, eout, ebatch, ei, eres, eprog, epc,
          rbase, runs, rover,
          cbrowser, ctree, cout, cpc,
          cache, reqs, netver,
          users, currentUser, localStore, sessionStore, dirty, aclock, acalls,
          gbookmarks, selection, isSelectionMode, shareDialogOpen, gclicks>>

(***************************************************************************)
(* Options: an optional field is <<>> (undefined) or <<v>>.                *)
(***************************************************************************)
None == << >>

Some(v) == <<v>>

(***************************************************************************)
(* Character strings                                                       *)
(***************************************************************************)
UpperChars == <<"A","B","C","D","E","F","G","H","I","J","K","L","M","N","O","P","Q","R","S","T","U","V","W","X","Y","Z">>

LowerChars == <<"a","b","c","d","e","f","g","h","i","j","k","l","m","n","o","p","q","r","s","t","u","v","w","x","y","z">>

\* String.prototype.toLowerCase, one character
toLowerCaseChar(c) ==
    LET lower(upper, to) ==
            IF \E i \in 1..Len(upper) : upper[i] = c
            THEN to[CHOOSE i \in 1..Len(upper) : upper[i] = c]
            ELSE c
    IN  lower(UpperChars, LowerChars)

\* String.prototype.toLowerCase
toLowerCase(s) == [i \in 1..Len(s) |-> toLowerCaseChar(s[i])]

toLowerCaseAll(ss) == [i \in 1..Len(ss) |-> toLowerCase(ss[i])]

\* String.prototype.startsWith
startsWith(s, p) == Len(p) <= Len(s) /\ SubSeq(s, 1, Len(p)) = p

\* String.prototype.endsWith
endsWith(s, p) == Len(p) <= Len(s) /\ SubSeq(s, Len(s) - Len(p) + 1, Len(s)) = p

\* String.prototype.includes
includes(s, p) ==
    \E i \in 1..(Len(s) - Len(p) + 1) : SubSeq(s, i, i + Len(p) - 1) = p

\* least index >= from of a character of the set cs, Len(s)+1 when there is none
IndexOfAny(s, cs, from) ==
    LET least(I) == IF I = {} THEN Len(s) + 1 ELSE CHOOSE i \in I : \A j \in I : i <= j
    IN  least({i \in from..Len(s) : s[i] \in cs})

\* String.prototype.split on a one-character separator
RECURSIVE split(_, _)
split(s, c) ==
    LET at(i) == IF i > Len(s) THEN <<s>>
                 ELSE <<SubSeq(s, 1, i - 1)>> \o split(SubSeq(s, i + 1, Len(s)), c)
    IN  at(IndexOfAny(s, {c}, 1))

\* Array.prototype.join
RECURSIVE join(_, _)
join(parts, sep) ==
    IF Len(parts) = 0 THEN << >>
    ELSE IF Len(parts) = 1 THEN parts[1]
    ELSE parts[1] \o sep \o join(Tail(parts), sep)

(***************************************************************************)
(* new URL(url): the WHATWG parser on http(s) URLs without port, userinfo, *)
(* dot segments or percent escapes.  ok = FALSE is the TypeError.          *)
(***************************************************************************)
SpecialSchemes == {<<"h","t","t","p">>, <<"h","t","t","p","s">>}

UrlRecord(scheme, sep, host, rawPath, rawQ, rawH) ==
    IF scheme \in SpecialSchemes /\ sep = <<":","/","/">> /\ host # << >>
    THEN [ok       |-> TRUE,
          origin   |-> scheme \o <<":","/","/">> \o host,
          hostname |-> host,
          pathname |-> IF rawPath = << >> THEN <<"/">> ELSE rawPath,
          search   |-> IF Len(rawQ) <= 1 THEN << >> ELSE rawQ,
          hash     |-> IF Len(rawH) <= 1 THEN << >> ELSE rawH]
    ELSE [ok |-> FALSE, origin |-> << >>, hostname |-> << >>,
          pathname |-> << >>, search |-> << >>, hash |-> << >>]

\* the URL cut at the colon of the scheme, the end of the host, the end of
\* the path and the end of the query
UrlCut(url, colon, hostEnd, pathEnd, qEnd) ==
    UrlRecord(toLowerCase(SubSeq(url, 1, colon - 1)),
              IF colon + 2 <= Len(url) THEN SubSeq(url, colon, colon + 2) ELSE << >>,
              toLowerCase(SubSeq(url, colon + 3, hostEnd - 1)),
              SubSeq(url, hostEnd, pathEnd - 1),
              SubSeq(url, pathEnd, qEnd - 1),
              SubSeq(url, qEnd, Len(url)))

UrlFromQuery(url, colon, hostEnd, pathEnd) ==
    UrlCut(url, colon, hostEnd, pathEnd, IndexOfAny(url, {"#"}, pathEnd))

UrlFromPath(url, colon, hostEnd) ==
    UrlFromQuery(url, colon, hostEnd, IndexOfAny(url, {"?", "#"}, hostEnd))

UrlFromHost(url, colon) ==
    UrlFromPath(url, colon, IndexOfAny(url, {"/", "?", "#"}, colon + 3))

ParseUrl(url) == UrlFromHost(url, IndexOfAny(url, {":"}, 1))

\* new URLSearchParams(search): the list of <<name, value>> pairs, in order
URLSearchParams(search) ==
    LET pair(p, e) == <<SubSeq(p, 1, e - 1), SubSeq(p, e + 1, Len(p))>>
        pairs(pieces) ==
            [i \in 1..Len(pieces) |-> pair(pieces[i], IndexOfAny(pieces[i], {"="}, 1))]
    IN  pairs(SelectSeq(split(IF startsWith(search, <<"?">>) THEN Tail(search) ELSE search,
                              "&"),
                        LAMBDA p : p # << >>))

\* URLSearchParams.prototype.toString
paramsToString(params) ==
    join([i \in 1..Len(params) |-> params[i][1] \o <<"=">> \o params[i][2]], <<"&">>)

\* the filter of ImportBookmarks.tsx:58
isEssentialParam(key) ==
    ~startsWith(key, <<"u","t","m","_">>) /\ key # <<"s","o","u","r","c","e">> /\ key # <<"r","e","f">>

\* pathname.replace(/\/$/, '')
stripTrailingSlash(p) == IF endsWith(p, <<"/">>) THEN SubSeq(p, 1, Len(p) - 1) ELSE p

\* normalizeUrl whose catch branch returns the string as it is
normalizeUrlKeepsCase(url) ==
    LET withHash(urlObj, withSearch) ==
            IF urlObj.hash # << >> THEN withSearch \o urlObj.hash ELSE withSearch
        withSearch(urlObj, base, essentialSearch) ==
            withHash(urlObj, IF essentialSearch # << >>
                             THEN base \o <<"?">> \o essentialSearch ELSE base)
        normalized(urlObj) ==
            IF urlObj.ok
            THEN toLowerCase(
                    withSearch(urlObj,
                        urlObj.origin \o stripTrailingSlash(urlObj.pathname),
                        paramsToString(SelectSeq(URLSearchParams(urlObj.search),
                                                 LAMBDA kv : isEssentialParam(kv[1])))))
            ELSE url
    IN  normalized(ParseUrl(url))

normalizeUrl(url) ==
    LET withHash(urlObj, withSearch) ==
            IF urlObj.hash # << >> THEN withSearch \o urlObj.hash ELSE withSearch
        withSearch(urlObj, base, essentialSearch) ==
            withHash(urlObj, IF essentialSearch # << >>
                             THEN base \o <<"?">> \o essentialSearch ELSE base)
        normalized(urlObj) ==
            IF urlObj.ok
            THEN toLowerCase(
                    withSearch(urlObj,
                        urlObj.origin \o stripTrailingSlash(urlObj.pathname),
                        paramsToString(SelectSeq(URLSearchParams(urlObj.search),
                                                 LAMBDA kv : isEssentialParam(kv[1])))))
            ELSE toLowerCase(url)
    IN  normalized(ParseUrl(url))

(***************************************************************************)
(* Bookmarks (types/index.ts).  Optional fields are options; tags and      *)
(* descriptions are character strings; Date values are milliseconds.       *)
(***************************************************************************)
Bookmark(id, title, url, dateAdded, favicon, tags, description) ==
    [id |-> id, title |-> title, url |-> url, dateAdded |-> dateAdded,
     favicon |-> favicon, tags |-> tags, description |-> description,
     screenshot |-> None, likes |-> 0, dislikes |-> 0,
     lastViewedAt |-> None, archived |-> None, remindAt |-> None,
     analytics |-> None]

\* the keys a bookmark object can carry besides the always-present ones
OptionalKeys == {"favicon", "description", "screenshot", "lastViewedAt",
                 "archived", "remindAt", "analytics"}

BookmarkKeys == {"id", "title", "url", "dateAdded", "tags", "likes", "dislikes"}
                    \cup OptionalKeys

\* { ...a, ...b }: a key of b that is present overrides the key of a
Spread(a, b) ==
    [k \in BookmarkKeys |->
        IF k \in OptionalKeys /\ b[k] = None THEN a[k] ELSE b[k]]

\* [...new Set(xs)]: first occurrences, in order
RECURSIVE uniqueInOrder(_)
uniqueInOrder(xs) ==
    IF xs = << >> THEN << >>
    ELSE LET init == uniqueInOrder(SubSeq(xs, 1, Len(xs) - 1))
             last == xs[Len(xs)]
         IN  IF \E i \in 1..Len(init) : init[i] = last THEN init ELSE Append(init, last)

Range(s) == {s[i] : i \in 1..Len(s)}

SeqsUpTo(S, n) == UNION {[1..k -> S] : k \in 0..n}

(***************************************************************************)
(* Inputs: the <a> elements documents are made of, the browser bookmark    *)
(* trees, and the strings that occur in them.  The string functions of the *)
(* code are tabulated over these strings once (the tables named ...Of).    *)
(***************************************************************************)
Anchor(href, add_date, text) == [href |-> href, add_date |-> add_date, text |-> text]

AnchorPool ==
    << Anchor(Some(<<"h","t","t","p","s",":","/","/","g","i","t","h","u","b",".","c","o","m">>), Some(9), <<"G","i","t","H","u","b">>),
       Anchor(Some(<<"h","t","t","p","s",":","/","/","G","i","t","H","u","b",".","c","o","m","/","?","r","e","f","=","n","e","w","s">>), Some(1), <<"G","i","t","H","u","b"," ","-"," ","S","i","t","e">>),
       Anchor(Some(<<"h","t","t","p","s",":","/","/","e","x",".","c","o","m","/","a">>), Some(2), <<" ","A"," ","(","x",")"," ">>),
       Anchor(Some(<<"h","t","t","p","s",":","/","/","e","x",".","c","o","m","/","a","/","?","u","t","m","_","s","=","n","e","w","s">>), Some(3), << >>),
       Anchor(Some(<<"E","x",".","c","o","m","/","A">>), Some(4), <<"E","x">>),
       Anchor(Some(<<"h","t","t","p","s",":","/","/","e","x",".","c","o","m","/","a">>), Some(7), <<"A"," ","l","a","t","e","r">>),
       Anchor(None, Some(8), <<"n","o"," ","h","r","e","f">>),
       Anchor(Some(<< >>), None, <<"e","m","p","t","y"," ","h","r","e","f">>),
       Anchor(Some(<<"h","t","t","p","s",":","/","/","e","x",".","c","o","m","/","a">>), None, <<"A"," ","u","n","d","a","t","e","d">>),
       Anchor(Some(<<"h","t","t","p","s",":","/","/","w","w","w",".","g","i","s","t",".","g","i","t","h","u","b",".","c","o","m","/","n","e","w","s">>), Some(5), <<"S","h","o","p"," ","d","o","c","s"," ","b","l","o","g">>) >>

Node(url, title, dateAdded, children) ==
    [url |-> url, title |-> title, dateAdded |-> dateAdded, children |-> children]

BrowserTrees ==
    { <<Node(None, << >>, None, << >>)>>,
      <<Node(None, << >>, None,
          << Node(Some(<<"h","t","t","p","s",":","/","/","g","i","t","h","u","b",".","c","o","m">>), <<"G","i","t","H","u","b">>, Some(9000), << >>),
             Node(None, <<"f","o","l","d","e","r">>, None,
               << Node(Some(<<"h","t","t","p","s",":","/","/","e","x",".","c","o","m","/","a">>), << >>, None, << >>),
                  Node(Some(<<"c","h","r","o","m","e",":","/","/","s","e","t","t","i","n","g","s">>), <<"S","e","t","t","i","n","g","s">>, Some(1000), << >>) >>) >>)>>,
      <<Node(None, << >>, None,
          << Node(Some(<<"h","t","t","p","s",":","/","/","e","x",".","c","o","m","/","a">>), <<"A"," ","n","e","w","s">>, Some(5000), << >>),
             Node(Some(<<"h","t","t","p","s",":","/","/","e","x",".","c","o","m","/","a">>), <<"A"," ","d","o","c","s">>, Some(4000), << >>) >>)>> }

SampleUrls == {<<"h","t","t","p","s",":","/","/","g","i","t","h","u","b",".","c","o","m">>, <<"h","t","t","p","s",":","/","/","s","t","a","c","k","o","v","e","r","f","l","o","w",".","c","o","m">>,
               <<"h","t","t","p","s",":","/","/","w","w","w",".","b","b","c",".","c","o","m">>, <<"h","t","t","p","s",":","/","/","w","w","w",".","n","e","t","f","l","i","x",".","c","o","m">>,
               <<"h","t","t","p","s",":","/","/","w","w","w",".","e","p","i","c","u","r","i","o","u","s",".","c","o","m">>, <<"h","t","t","p","s",":","/","/","d","e","v","e","l","o","p","e","r",".","m","o","z","i","l","l","a",".","o","r","g">>}

RECURSIVE NodeUrlTitles(_)
NodeUrlTitles(nodes) ==
    UNION { (IF nodes[i].url = None THEN {} ELSE {<<nodes[i].url[1], nodes[i].title>>})
            \cup NodeUrlTitles(nodes[i].children) : i \in 1..Len(nodes) }

TreeUrlTitles == UNION {NodeUrlTitles(t) : t \in BrowserTrees}

AnchorUrls == {a.href[1] : a \in {b \in Range(AnchorPool) : b.href # None}}

KnownUrls == SampleUrls \cup AnchorUrls \cup {ut[1] : ut \in TreeUrlTitles}

normalizeUrlOf == [u \in KnownUrls |-> normalizeUrl(u)]

(***************************************************************************)
(* lib/bookmarkParser.ts                                                   *)
(***************************************************************************)
\* String.prototype.trim (the only white space of the model is the blank)
RECURSIVE trim(_)
trim(s) ==
    IF s = << >> THEN s
    ELSE IF Head(s) = " " THEN trim(Tail(s))
    ELSE IF s[Len(s)] = " " THEN trim(SubSeq(s, 1, Len(s) - 1))
    ELSE s

extractDomainFromUrl(url) ==
    LET domain(urlObj) ==
            IF urlObj.ok
            THEN (IF startsWith(urlObj.hostname, <<"w","w","w",".">>)
                  THEN SubSeq(urlObj.hostname, 5, Len(urlObj.hostname))
                  ELSE urlObj.hostname)
            ELSE url
    IN  domain(ParseUrl(url))

generateTagsFromUrl(url) ==
    LET rule(lowercase, terms, tag) ==
            IF \E t \in terms : includes(lowercase, t) THEN <<tag>> ELSE << >>
        orDomain(tags) ==
            IF tags = << >> THEN <<split(extractDomainFromUrl(url), ".")[1]>> ELSE tags
        tagsOf(lowercase) ==
            rule(lowercase, {<<"g","i","t","h","u","b">>, <<"s","t","a","c","k","o","v","e","r","f","l","o","w">>, <<"d","e","v",".","t","o">>, <<"m","e","d","i","u","m",".","c","o","m">>}, <<"t","e","c","h">>)
         \o rule(lowercase, {<<"n","e","w","s">>, <<"b","b","c">>, <<"c","n","n">>, <<"n","y","t","i","m","e","s">>}, <<"n","e","w","s">>)
         \o rule(lowercase, {<<"r","e","c","i","p","e">>, <<"f","o","o","d">>, <<"c","o","o","k","i","n","g">>, <<"a","l","l","r","e","c","i","p","e","s">>}, <<"r","e","c","i","p","e">>)
         \o rule(lowercase, {<<"f","a","c","e","b","o","o","k">>, <<"t","w","i","t","t","e","r">>, <<"i","n","s","t","a","g","r","a","m">>, <<"l","i","n","k","e","d","i","n">>}, <<"s","o","c","i","a","l">>)
         \o rule(lowercase, {<<"f","i","n","a","n","c","e">>, <<"m","o","n","e","y">>, <<"i","n","v","e","s","t">>, <<"b","a","n","k">>}, <<"f","i","n","a","n","c","e">>)
         \o rule(lowercase, {<<"l","e","a","r","n">>, <<"c","o","u","r","s","e">>, <<"t","u","t","o","r","i","a","l">>, <<"e","d","u","c","a","t","i","o","n">>}, <<"e","d","u","c","a","t","i","o","n">>)
         \o rule(lowercase, {<<"y","o","u","t","u","b","e">>, <<"n","e","t","f","l","i","x">>, <<"h","u","l","u">>, <<"m","o","v","i","e">>}, <<"e","n","t","e","r","t","a","i","n","m","e","n","t">>)
         \o rule(lowercase, {<<"t","r","a","v","e","l">>, <<"v","a","c","a","t","i","o","n">>, <<"h","o","t","e","l">>, <<"b","o","o","k","i","n","g">>}, <<"t","r","a","v","e","l">>)
    IN  orDomain(tagsOf(toLowerCase(url)))

\* generateTagsFromUrl as part_004 has it: other categories, and the first
\* label of the domain only when it is longer than 3 characters
generateTagsFromUrlCategories(url) ==
    LET rule(lowercase, terms, tag) ==
            IF \E t \in terms : includes(lowercase, t) THEN <<tag>> ELSE << >>
        mainDomain(label) == IF Len(label) > 3 THEN <<label>> ELSE << >>
        orDomain(tags) ==
            IF tags = << >> THEN mainDomain(split(extractDomainFromUrl(url), ".")[1])
            ELSE tags
        tagsOf(lowercase) ==
            rule(lowercase, {<<"g","i","t","h","u","b",".","c","o","m">>, <<"s","t","a","c","k","o","v","e","r","f","l","o","w",".","c","o","m">>, <<"d","e","v",".","t","o">>,
                             <<"g","i","t","l","a","b",".","c","o","m">>, <<"b","i","t","b","u","c","k","e","t",".","o","r","g">>, <<"n","p","m">>, <<"g","i","t","h","u","b">>,
                             <<"s","t","a","c","k","o","v","e","r","f","l","o","w">>}, <<"d","e","v","e","l","o","p","m","e","n","t">>)
         \o rule(lowercase, {<<"n","e","w","s">>, <<"b","b","c",".","c","o","m">>, <<"r","e","u","t","e","r","s",".","c","o","m">>, <<"c","n","n",".","c","o","m">>,
                             <<"n","y","t","i","m","e","s",".","c","o","m">>, <<"b","l","o","o","m","b","e","r","g",".","c","o","m">>}, <<"n","e","w","s">>)
         \o rule(lowercase, {<<"r","e","c","i","p","e">>, <<"f","o","o","d">>, <<"c","o","o","k","i","n","g">>, <<"a","l","l","r","e","c","i","p","e","s",".","c","o","m">>,
                             <<"f","o","o","d","n","e","t","w","o","r","k",".","c","o","m">>, <<"e","p","i","c","u","r","i","o","u","s",".","c","o","m">>}, <<"f","o","o","d">>)
         \o rule(lowercase, {<<"f","a","c","e","b","o","o","k",".","c","o","m">>, <<"t","w","i","t","t","e","r",".","c","o","m">>, <<"i","n","s","t","a","g","r","a","m",".","c","o","m">>,
                             <<"l","i","n","k","e","d","i","n",".","c","o","m">>, <<"t","i","k","t","o","k",".","c","o","m">>}, <<"s","o","c","i","a","l">>)
         \o rule(lowercase, {<<"f","i","n","a","n","c","e">>, <<"i","n","v","e","s","t","i","n","g",".","c","o","m">>, <<"m","a","r","k","e","t","w","a","t","c","h",".","c","o","m">>,
                             <<"b","l","o","o","m","b","e","r","g",".","c","o","m">>, <<"y","a","h","o","o",".","c","o","m","/","f","i","n","a","n","c","e">>}, <<"f","i","n","a","n","c","e">>)
         \o rule(lowercase, {<<"c","o","u","r","s","e","r","a",".","o","r","g">>, <<"u","d","e","m","y",".","c","o","m">>, <<"e","d","x",".","o","r","g">>,
                             <<"k","h","a","n"," ","a","c","a","d","e","m","y">>, <<"e","d","u","c","a","t","i","o","n","a","l">>}, <<"e","d","u","c","a","t","i","o","n">>)
         \o rule(lowercase, {<<"y","o","u","t","u","b","e",".","c","o","m">>, <<"n","e","t","f","l","i","x",".","c","o","m">>, <<"h","u","l","u",".","c","o","m">>,
                             <<"s","p","o","t","i","f","y",".","c","o","m">>, <<"d","i","s","n","e","y">>}, <<"e","n","t","e","r","t","a","i","n","m","e","n","t">>)
         \o rule(lowercase, {<<"a","m","a","z","o","n",".","c","o","m">>, <<"e","b","a","y",".","c","o","m">>, <<"e","t","s","y",".","c","o","m">>, <<"s","h","o","p">>,
                             <<"s","t","o","r","e">>}, <<"s","h","o","p","p","i","n","g">>)
         \o rule(lowercase, {<<"b","o","o","k","i","n","g",".","c","o","m">>, <<"a","i","r","b","n","b",".","c","o","m">>, <<"e","x","p","e","d","i","a",".","c","o","m">>,
                             <<"t","r","i","p","a","d","v","i","s","o","r",".","c","o","m">>, <<"t","r","a","v","e","l">>}, <<"t","r","a","v","e","l">>)
    IN  orDomain(tagsOf(toLowerCase(url)))

\* the type BookmarkCategory
BookmarkCategory ==
    {<<"t","o","o","l","s">>, <<"f","r","a","m","e","w","o","r","k","s">>, <<"l","i","b","r","a","r","i","e","s">>, <<"d","o","c","u","m","e","n","t","a","t","i","o","n">>, <<"t","u","t","o","r","i","a","l">>,
     <<"b","l","o","g">>, <<"a","r","t","i","c","l","e">>, <<"n","e","w","s">>, <<"s","o","c","i","a","l">>, <<"e","n","t","e","r","t","a","i","n","m","e","n","t">>, <<"s","h","o","p","p","i","n","g">>,
     <<"t","r","a","v","e","l">>, <<"f","i","n","a","n","c","e">>, <<"e","d","u","c","a","t","i","o","n">>, <<"d","e","v","e","l","o","p","m","e","n","t">>, <<"t","e","c","h","n","o","l","o","g","y">>,
     <<"h","e","a","l","t","h">>, <<"r","e","f","e","r","e","n","c","e">>, <<"o","t","h","e","r">>}

\* encodeURIComponent on the reserved characters of the model
RECURSIVE encodeURIComponent(_)
encodeURIComponent(s) ==
    IF s = << >> THEN << >>
    ELSE (CASE Head(s) = ":" -> <<"%","3","A">>
            [] Head(s) = "/" -> <<"%","2","F">>
            [] Head(s) = "?" -> <<"%","3","F">>
            [] Head(s) = "=" -> <<"%","3","D">>
            [] Head(s) = "&" -> <<"%","2","6">>
            [] Head(s) = "#" -> <<"%","2","3">>
            [] OTHER -> <<Head(s)>>) \o encodeURIComponent(Tail(s))

\* `https://www.google.com/s2/favicons?domain=${...}`
faviconOf(domain) == Some(<<"h","t","t","p","s",":","/","/","w","w","w",".","g","o","o","g","l","e",".","c","o","m","/","s","2","/","f","a","v","i","c","o","n","s","?","d","o","m","a","i","n","=">> \o domain)

\* removeDuplicatesByUrl: a Map keyed by URL keeps the position of the first
\* entry of a URL and the value of the first entry with the latest date
RECURSIVE removeDuplicatesByUrlKeepsLast(_)
removeDuplicatesByUrlKeepsLast(bs) ==
    IF bs = << >> THEN << >>
    ELSE LET init == removeDuplicatesByUrlKeepsLast(SubSeq(bs, 1, Len(bs) - 1))
             b    == bs[Len(bs)]
             hits == {i \in 1..Len(init) : init[i].url = b.url}
         IN  IF hits = {} THEN Append(init, b)
             ELSE [init EXCEPT ![CHOOSE j \in hits : TRUE] = b]

RECURSIVE removeDuplicatesByUrl(_)
removeDuplicatesByUrl(bs) ==
    IF bs = << >> THEN << >>
    ELSE LET init == removeDuplicatesByUrl(SubSeq(bs, 1, Len(bs) - 1))
             b    == bs[Len(bs)]
             hits == {i \in 1..Len(init) : init[i].url = b.url}
         IN  IF hits = {} THEN Append(init, b)
             ELSE LET i == CHOOSE j \in hits : TRUE
                  IN  IF b.dateAdded > init[i].dateAdded
                      THEN [init EXCEPT ![i] = b] ELSE init

\* the body of the forEach of parseBookmarksHtml on one <a> element: the
\* bookmark it pushes, but for the id and for the date of an element
\* without add_date
parseElement(a) ==
    LET url   == IF a.href = None THEN << >> ELSE a.href[1]
        text  == trim(a.text)
    IN  [skip  |-> a.href = None \/ a.href = Some(<< >>),
         url   |-> url,
         title |-> IF text # << >> THEN text ELSE extractDomainFromUrl(url),
         dateAdded |-> IF a.add_date # None THEN Some(a.add_date[1] * 1000) ELSE None,
         favicon |-> faviconOf(encodeURIComponent(url)),
         tags  |-> generateTagsFromUrl(url)]

parseElementOf == [i \in 1..Len(AnchorPool) |-> parseElement(AnchorPool[i])]

\* parseBookmarksHtml on the <a> elements of the document (indices of
\* AnchorPool), in document order; every element with an href draws one
\* fresh id (uuidv4)
RECURSIVE parseAnchors(_, _, _)
parseAnchors(anchors, firstId, clock) ==
    IF anchors = << >> THEN << >>
    ELSE LET e == parseElementOf[Head(anchors)]
         IN  IF e.skip
             THEN parseAnchors(Tail(anchors), firstId, clock)
             ELSE <<Bookmark(firstId, e.title, e.url,
                             IF e.dateAdded # None THEN e.dateAdded[1] ELSE clock,
                             e.favicon, e.tags, Some(<< >>))>>
                  \o parseAnchors(Tail(anchors), firstId + 1, clock)

parseBookmarksHtml(anchors, firstId, clock) ==
    removeDuplicatesByUrl(parseAnchors(anchors, firstId, clock))

\* the number of ids parseBookmarksHtml draws
idsDrawn(anchors) ==
    Cardinality({i \in 1..Len(anchors) : ~parseElementOf[anchors[i]].skip})

getSampleBookmarks ==
    LET s(id, title, url, date, tags, desc, likes, dislikes) ==
            [Bookmark(id, title, url, date, faviconOf(extractDomainFromUrl(url)),
                      tags, Some(desc))
                EXCEPT !.likes = likes, !.dislikes = dislikes]
    IN  << s(1, <<"G","i","t","H","u","b",":"," ","W","h","e","r","e"," ","t","h","e"," ","w","o","r","l","d"," ","b","u","i","l","d","s"," ","s","o","f","t","w","a","r","e">>, <<"h","t","t","p","s",":","/","/","g","i","t","h","u","b",".","c","o","m">>,
             4000, <<<<"t","e","c","h">>, <<"d","e","v","e","l","o","p","m","e","n","t">>>>, <<"G","i","t","H","u","b"," ","i","s"," ","w","h","e","r","e">>, 42, 2),
           s(2, <<"S","t","a","c","k"," ","O","v","e","r","f","l","o","w"," ","-"," ","W","h","e","r","e"," ","D","e","v","e","l","o","p","e","r","s"," ","L","e","a","r","n",","," ","S","h","a","r","e",","," ","&"," ","B","u","i","l","d">>,
             <<"h","t","t","p","s",":","/","/","s","t","a","c","k","o","v","e","r","f","l","o","w",".","c","o","m">>,
             3000, <<<<"t","e","c","h">>, <<"p","r","o","g","r","a","m","m","i","n","g">>, <<"c","o","m","m","u","n","i","t","y">>>>, <<"S","t","a","c","k"," ","O","v","e","r","f","l","o","w"," ","i","s">>, 38, 1),
           s(3, <<"B","B","C"," ","-"," ","H","o","m","e","p","a","g","e">>, <<"h","t","t","p","s",":","/","/","w","w","w",".","b","b","c",".","c","o","m">>,
             5000, <<<<"n","e","w","s">>>>, <<"B","r","e","a","k","i","n","g"," ","n","e","w","s">>, 15, 3),
           s(4, <<"N","e","t","f","l","i","x"," ","-"," ","W","a","t","c","h"," ","T","V"," ","S","h","o","w","s"," ","O","n","l","i","n","e",","," ","W","a","t","c","h"," ","M","o","v","i","e","s"," ","O","n","l","i","n","e">>,
             <<"h","t","t","p","s",":","/","/","w","w","w",".","n","e","t","f","l","i","x",".","c","o","m">>,
             2000, <<<<"e","n","t","e","r","t","a","i","n","m","e","n","t">>, <<"s","t","r","e","a","m","i","n","g">>>>, <<"W","a","t","c","h"," ","N","e","t","f","l","i","x">>, 67, 4),
           s(5, <<"E","p","i","c","u","r","i","o","u","s"," ","-"," ","R","e","c","i","p","e","s",","," ","M","e","n","u"," ","I","d","e","a","s",","," ","V","i","d","e","o","s"," ","&"," ","C","o","o","k","i","n","g"," ","T","i","p","s">>,
             <<"h","t","t","p","s",":","/","/","w","w","w",".","e","p","i","c","u","r","i","o","u","s",".","c","o","m">>,
             6000, <<<<"r","e","c","i","p","e">>, <<"f","o","o","d">>>>, <<"C","o","o","k"," ","w","i","t","h"," ","c","o","n","f","i","d","e","n","c","e">>, 29, 0),
           s(6, <<"M","D","N"," ","W","e","b"," ","D","o","c","s">>, <<"h","t","t","p","s",":","/","/","d","e","v","e","l","o","p","e","r",".","m","o","z","i","l","l","a",".","o","r","g">>,
             1000, <<<<"t","e","c","h">>, <<"d","e","v","e","l","o","p","m","e","n","t">>, <<"r","e","f","e","r","e","n","c","e">>>>, <<"R","e","s","o","u","r","c","e","s"," ","f","o","r"," ","d","e","v","e","l","o","p","e","r","s">>, 51, 1) >>

(***************************************************************************)
(* components/ImportBookmarks.tsx                                          *)
(***************************************************************************)
\* title.replace(/\s[|\-–—]\s.*$/, '').replace(/\s*\(.*?\)\s*$/, '').trim()
cleanupTitle(title) ==
    LET least(S) == CHOOSE i \in S : \A j \in S : i <= j
        greatest(S) == IF S = {} THEN 0 ELSE CHOOSE k \in S : \A j \in S : j <= k
        cutAt(cut1, open1) ==
            SubSeq(cut1, 1,
                   least({i \in 1..open1 : \A k \in i..(open1 - 1) : cut1[k] = " "}) - 1)
        parens(cut1, body, opens) ==
            IF body > 0 /\ cut1[body] = ")" /\ opens # {}
            THEN cutAt(cut1, least(opens)) ELSE cut1
        second(cut1, body) == parens(cut1, body, {j \in 1..(body - 1) : cut1[j] = "("})
        first(seps) == IF seps = {} THEN title ELSE SubSeq(title, 1, least(seps) - 1)
        rest(cut1) == second(cut1, greatest({k \in 1..Len(cut1) : cut1[k] # " "}))
    IN  trim(rest(first({i \in 1..(Len(title) - 2) :
                            title[i] = " " /\ title[i + 1] \in {"|", "-"}
                                           /\ title[i + 2] = " "})))

cleanupTitleOf ==
    [t \in {parseElementOf[i].title :
              i \in {j \in 1..Len(AnchorPool) : ~parseElementOf[j].skip}}
        |-> cleanupTitle(t)]

\* the dedupe / merge block of processFile (ImportBookmarks.tsx:109-157) on
\* the collection `existing` and the parsed batch: the duplicates are merged
\* into the objects of the collection in place, in batch order
mergedTags(existingBookmark, newBookmark) ==
    uniqueInOrder(existingBookmark.tags \o newBookmark.tags)

latestDate(existingBookmark, newBookmark) ==
    IF newBookmark.dateAdded > existingBookmark.dateAdded
    THEN newBookmark.dateAdded ELSE existingBookmark.dateAdded

\* existingBookmark.description || newBookmark.description
mergedDescription(existingBookmark, newBookmark) ==
    IF existingBookmark.description \in {None, Some(<< >>)}
    THEN newBookmark.description ELSE existingBookmark.description

\* Object.assign(existingBookmark, { tags, dateAdded, description })
assignMerged(existingBookmark, newBookmark) ==
    [existingBookmark EXCEPT
        !.tags = mergedTags(existingBookmark, newBookmark),
        !.dateAdded = latestDate(existingBookmark, newBookmark),
        !.description = mergedDescription(existingBookmark, newBookmark)]

\* normalizedExistingUrls.get(key): the Map keeps, for a key, the last
\* bookmark of the collection that was set under it; 0 when there is none
lookupNormalized(existing, key) ==
    LET last(hits) == IF hits = {} THEN 0 ELSE CHOOSE i \in hits : \A j \in hits : j <= i
    IN  last({i \in 1..Len(existing) : normalizeUrlOf[existing[i].url] = key})

RECURSIVE dedupeMerge(_, _, _)
dedupeMerge(existing, parsed, merge) ==
    LET sort(newBookmark, i, rest) ==
            IF i # 0
            THEN [rest EXCEPT !.dupes = <<newBookmark>> \o rest.dupes]
            ELSE [rest EXCEPT !.unique = <<newBookmark>> \o rest.unique]
        step(newBookmark, i) ==
            sort(newBookmark, i,
                 dedupeMerge(IF i # 0 /\ merge
                             THEN [existing EXCEPT
                                     ![i] = assignMerged(existing[i], newBookmark)]
                             ELSE existing,
                             Tail(parsed), merge))
    IN  IF parsed = << >>
        THEN [existing |-> existing, unique |-> << >>, dupes |-> << >>]
        ELSE step(Head(parsed),
                  lookupNormalized(existing, normalizeUrlOf[Head(parsed).url]))

(***************************************************************************)
(* services/tagger.service (tagBookmark) is not among the sources: the     *)
(* classifier of the specification, section 4.2, on the rules it names.    *)
(***************************************************************************)
DomainOverrides == { <<<<"g","i","t","h","u","b",".","c","o","m">>, <<"d","e","v","e","l","o","p","m","e","n","t">>>> }

KeywordBuckets == << <<<<"n","e","w","s">>, {<<"n","e","w","s">>}>>,
                     <<<<"d","o","c","u","m","e","n","t","a","t","i","o","n">>, {<<"d","o","c","s">>}>> >>

tagBookmark(url, title, description) ==
    LET classify(host, blob, over, cats) ==
            IF over # {} THEN <<(CHOOSE o \in over : TRUE)[2]>>
            ELSE IF cats # << >>
            THEN SubSeq(cats, 1, IF Len(cats) > 2 THEN 2 ELSE Len(cats))
            ELSE IF \E t \in {<<".","d","e","v">>, <<".","i","o">>, <<".","t","e","c","h">>} : endsWith(host, t)
            THEN <<<<"t","e","c","h">>>>
            ELSE IF includes(blob, <<"b","l","o","g">>) THEN <<<<"a","r","t","i","c","l","e">>>>
            ELSE IF includes(blob, <<"s","h","o","p">>) \/ includes(blob, <<"s","t","o","r","e">>)
            THEN <<<<"s","h","o","p","p","i","n","g">>>>
            ELSE <<<<"o","t","h","e","r">>>>
        names(hits) == [i \in 1..Len(hits) |-> hits[i][1]]
        rules(host, blob) ==
            classify(host, blob,
                     {o \in DomainOverrides : host = o[1] \/ endsWith(host, <<".">> \o o[1])},
                     names(SelectSeq(KeywordBuckets,
                                     LAMBDA b : \E k \in b[2] : includes(blob, k))))
    IN  rules(toLowerCase(extractDomainFromUrl(url)),
              toLowerCase(url \o <<" ">> \o title \o <<" ">> \o description))

(***************************************************************************)
(* services/aiService.ts                                                   *)
(***************************************************************************)
extractDomainFromUrlOf == [u \in KnownUrls |-> extractDomainFromUrl(u)]

\* what the page fetch of fetchPageContent gives: a meta description, or
\* the fallback page info of getFallbackPageInfo
FetchOutcomes == {"page", "fallback"}

fetchedDescription(url, outcome) ==
    IF outcome = "page" THEN <<"d","o","c","s"," ","a","n","d"," ","n","e","w","s">>
    ELSE <<"R","e","s","o","u","r","c","e"," ","f","r","o","m"," ">> \o extractDomainFromUrlOf[url]

\* the bookmarks processBatch can be given: parsed elements, titles cleaned
EnhanceKeys ==
    {<<parseElementOf[i].url, cleanupTitleOf[parseElementOf[i].title], o>> :
        i \in {j \in 1..Len(AnchorPool) : ~parseElementOf[j].skip}, o \in FetchOutcomes}

\* new URL(url) of getFallbackPageInfo (aiService.ts:822) throws on a string
\* that is not a URL; processBatch then takes its catch branch
parsesOf == [u \in KnownUrls |-> ParseUrl(u).ok]

fallbackThrows(url, outcome) == outcome = "fallback" /\ ~parsesOf[url]

\* the tags of processBatch: tagBookmark with the description of the page
\* (aiService.ts:937), and without a description in the catch branch (:951)
enhancedTagsOf ==
    [k \in EnhanceKeys |->
        tagBookmark(k[1], k[2],
                    IF fallbackThrows(k[1], k[3]) THEN << >>
                    ELSE fetchedDescription(k[1], k[3]))]

\* an enhancement that leaves the tags of the parser in place
enhanceOneKeepsTags(bookmark, outcome) ==
    LET description == fetchedDescription(bookmark.url, outcome)
    IN  [bookmark EXCEPT
            !.description = Some(description),
            !.screenshot = Some(<<"p","l","a","c","e","h","o","l","d","e","r",":">> \o extractDomainFromUrlOf[bookmark.url])]

\* processBatch([bookmark])[0] followed by the screenshot of
\* enhanceBookmarksWithAI (aiService.ts:984-992)
enhanceOne(bookmark, outcome) ==
    LET description == fetchedDescription(bookmark.url, outcome)
    IN  [bookmark EXCEPT
            !.description = Some(description),
            !.tags = enhancedTagsOf[<<bookmark.url, bookmark.title, outcome>>],
            !.screenshot = Some(<<"p","l","a","c","e","h","o","l","d","e","r",":">> \o extractDomainFromUrlOf[bookmark.url])]

\* enhanceBookmarksWithAI: every bookmark is enhanced, in input order
enhanceBookmarksWithAI(bs, outcome) ==
    [i \in 1..Len(bs) |-> enhanceOne(bs[i], outcome)]

\* what the awaited enhanceBookmarksWithAI can do to processFile: resolve
\* (with pages fetched or with fallback information) or reject
EnhanceOutcomes == FetchOutcomes \cup {"rejects"}

\* an enhancement step that loses the batch when the enhancement rejects
aiPassDropsBatch(unique, outcome) ==
    IF outcome = "rejects" THEN << >> ELSE enhanceBookmarksWithAI(unique, outcome)

\* the try/catch around enhanceBookmarksWithAI in processFile: a rejection
\* leaves parsedBookmarks as it was
aiPass(unique, outcome) ==
    IF outcome = "rejects" THEN unique ELSE enhanceBookmarksWithAI(unique, outcome)

(***************************************************************************)
(* hooks/useBookmarks: two versions of the hook are among the sources      *)
(***************************************************************************)
\* existingUrlMap.get(url): the last bookmark of prevBookmarks with the URL
lookupUrl(prevBookmarks, url) ==
    LET last(hits) == IF hits = {} THEN 0 ELSE CHOOSE i \in hits : \A j \in hits : j <= i
    IN  last({i \in 1..Len(prevBookmarks) : prevBookmarks[i].url = url})

\* mergedBookmarks.findIndex(b => b.id === id)
findIndexById(bs, id) ==
    LET hits == {i \in 1..Len(bs) : bs[i].id = id}
    IN  CHOOSE i \in hits : \A j \in hits : i <= j

\* the replacement without the restored counters
replaceNewerIncomingCounters(existing, newBookmark) ==
    [Spread(existing, newBookmark) EXCEPT !.id = existing.id]

\* the replacement of useBookmarks.ts:277-283
replaceNewer(existing, newBookmark) ==
    [Spread(existing, newBookmark) EXCEPT
        !.id = existing.id, !.likes = existing.likes, !.dislikes = existing.dislikes]

\* addBookmarks of hooks/useBookmarks.ts:260-289; `existing` is looked up in
\* prevBookmarks, the collection before the call
RECURSIVE addLoop(_, _, _)
addLoop(prevBookmarks, mergedBookmarks, newBookmarks) ==
    IF newBookmarks = << >> THEN mergedBookmarks
    ELSE LET newBookmark == Head(newBookmarks)
             e == lookupUrl(prevBookmarks, newBookmark.url)
             next ==
                IF e = 0 THEN Append(mergedBookmarks, newBookmark)
                ELSE IF newBookmark.dateAdded > prevBookmarks[e].dateAdded
                THEN [mergedBookmarks EXCEPT
                        ![findIndexById(mergedBookmarks, prevBookmarks[e].id)] =
                            replaceNewer(prevBookmarks[e], newBookmark)]
                ELSE mergedBookmarks
         IN  addLoop(prevBookmarks, next, Tail(newBookmarks))

addBookmarks(prevBookmarks, newBookmarks) ==
    addLoop(prevBookmarks, prevBookmarks, newBookmarks)

\* addBookmarks of the hook with tagging (unnamed part_006:22-57)
\* const tags = newBookmark.tags?.length ? newBookmark.tags : tagBookmark(...)
withTags(newBookmark) ==
    IF newBookmark.tags = << >>
    THEN [newBookmark EXCEPT
            !.tags = tagBookmark(newBookmark.url, newBookmark.title,
                                 IF newBookmark.description = None THEN << >>
                                 ELSE newBookmark.description[1])]
    ELSE newBookmark

\* one turn of the forEach of part_006:28-53 on the bookmark with its tags
mergeTagged(prevBookmarks, mergedBookmarks, newBookmark) ==
    LET merged(existing, union) ==
            IF newBookmark.dateAdded > existing.dateAdded
            THEN [mergedBookmarks EXCEPT
                    ![findIndexById(mergedBookmarks, existing.id)] =
                        [replaceNewer(existing, newBookmark) EXCEPT !.tags = union]]
            ELSE [mergedBookmarks EXCEPT
                    ![findIndexById(mergedBookmarks, existing.id)] =
                        [existing EXCEPT !.tags = union]]
        at(e) ==
            IF e = 0 THEN Append(mergedBookmarks, newBookmark)
            ELSE merged(prevBookmarks[e],
                        uniqueInOrder(prevBookmarks[e].tags \o newBookmark.tags))
    IN  at(lookupUrl(prevBookmarks, newBookmark.url))

RECURSIVE addLoopTagging(_, _, _)
addLoopTagging(prevBookmarks, mergedBookmarks, newBookmarks) ==
    IF newBookmarks = << >> THEN mergedBookmarks
    ELSE addLoopTagging(prevBookmarks,
                        mergeTagged(prevBookmarks, mergedBookmarks,
                                    withTags(Head(newBookmarks))),
                        Tail(newBookmarks))

addBookmarksTagging(prevBookmarks, newBookmarks) ==
    addLoopTagging(prevBookmarks, prevBookmarks, newBookmarks)

\* prev.filter(b => !ids.includes(b.id))
filterOutIds(bs, ids) == SelectSeq(bs, LAMBDA b : b.id \notin ids)

(***************************************************************************)
(* services/browserImport.service (unnamed part_005)                       *)
(***************************************************************************)
\* convertChromeBookmarks: pre-order walk; a node is <<url, title,
\* dateAdded, children>>; every converted node draws one id (uuid)
isInternalPage(url) == startsWith(url, <<"c","h","r","o","m","e",":","/","/">>) \/ startsWith(url, <<"e","d","g","e",":","/","/">>)

nodeTagsOf == [ut \in TreeUrlTitles |-> tagBookmark(ut[1], ut[2], << >>)]

hostnameOf == [u \in KnownUrls |-> ParseUrl(u).hostname]

\* a conversion that does not descend into the children of a node
convertNodesTopLevel(nodes, firstId, clock) ==
    LET bookmarkOf(node, id) ==
            [Bookmark(id, IF node.title = << >> THEN <<"U","n","t","i","t","l","e","d">> ELSE node.title,
                      node.url[1],
                      IF node.dateAdded = None \/ node.dateAdded = Some(0)
                          THEN clock ELSE node.dateAdded[1],
                      faviconOf(hostnameOf[node.url[1]]),
                      nodeTagsOf[<<node.url[1], node.title>>], None)
             EXCEPT !.analytics = Some([views |-> 0, reactions |-> 0])]
        kept == SelectSeq(nodes, LAMBDA n : /\ n.url # None /\ n.url # Some(<< >>)
                                            /\ ~isInternalPage(n.url[1]))
    IN  [k \in 1..Len(kept) |-> bookmarkOf(kept[k], firstId + k - 1)]

RECURSIVE convertNodes(_, _, _)
convertNodes(nodes, firstId, clock) ==
    IF nodes = << >> THEN << >>
    ELSE LET node == Head(nodes)
             skip == node.url = None \/ node.url = Some(<< >>)
             internal == ~skip /\ isInternalPage(node.url[1])
             own == IF skip \/ internal THEN << >>
                    ELSE <<[Bookmark(firstId,
                                IF node.title = << >> THEN <<"U","n","t","i","t","l","e","d">> ELSE node.title,
                                node.url[1],
                                IF node.dateAdded = None \/ node.dateAdded = Some(0)
                                    THEN clock ELSE node.dateAdded[1],
                                faviconOf(hostnameOf[node.url[1]]),
                                nodeTagsOf[<<node.url[1], node.title>>],
                                None)
                            EXCEPT !.analytics = Some([views |-> 0, reactions |-> 0])]>>
             kids == IF internal THEN << >>
                     ELSE convertNodes(node.children, firstId + Len(own), clock)
         IN  own \o kids \o convertNodes(Tail(nodes), firstId + Len(own) + Len(kids), clock)

convertChromeBookmarks(nodes, firstId, clock) == convertNodes(nodes, firstId, clock)

FirefoxNode(type, url, title, dateAdded, children) ==
    [type |-> type, url |-> url, title |-> title, dateAdded |-> dateAdded,
     children |-> children]

isFirefoxInternalPage(url) ==
    startsWith(url, <<"a","b","o","u","t",":">>) \/ startsWith(url, <<"m","o","z","-","e","x","t","e","n","s","i","o","n",":","/","/">>)

\* processNode of convertFirefoxBookmarks over a list of nodes
RECURSIVE convertFirefoxNodes(_, _, _)
convertFirefoxNodes(nodes, firstId, clock) ==
    IF nodes = << >> THEN << >>
    ELSE LET node == Head(nodes)
             skip == node.type # "bookmark" \/ node.url = None \/ node.url = Some(<< >>)
             internal == ~skip /\ isFirefoxInternalPage(node.url[1])
             own == IF skip \/ internal THEN << >>
                    ELSE <<[Bookmark(firstId,
                                IF node.title = << >> THEN <<"U","n","t","i","t","l","e","d">> ELSE node.title,
                                node.url[1],
                                IF node.dateAdded = None \/ node.dateAdded = Some(0)
                                    THEN clock ELSE node.dateAdded[1],
                                faviconOf(hostnameOf[node.url[1]]),
                                nodeTagsOf[<<node.url[1], node.title>>],
                                None)
                            EXCEPT !.analytics = Some([views |-> 0, reactions |-> 0])]>>
             kids == IF internal THEN << >>
                     ELSE convertFirefoxNodes(node.children, firstId + Len(own), clock)
         IN  own \o kids
                 \o convertFirefoxNodes(Tail(nodes), firstId + Len(own) + Len(kids), clock)

convertFirefoxBookmarks(nodes, firstId, clock) == convertFirefoxNodes(nodes, firstId, clock)

(***************************************************************************)
(* The application: bounds and inputs                                      *)
(***************************************************************************)
MaxSample == 1      \* bookmarks of getSampleBookmarks in the initial collection

MaxImports == 2     \* imports (HTML or browser) in a run

MaxUiOps == 1       \* like / archive / remind / delete / bulk operations in a run

MaxToggles == 1     \* flips of the switches of the import widget in a run

SevenDays == 604800000

HookVersions == {"storage", "tagging"}

\* a document is the sequence of its <a> elements, as indices of AnchorPool:
\* the empty document, one whose elements both name the first sample
\* bookmark, one with a new page, one whose two elements name that page, and
\* one with that page and an href that is not a URL
Documents == {<< >>, <<1, 2>>, <<3>>, <<3, 4>>, <<3, 5>>}

Files ==
    {[type |-> "text/html", htmlName |-> TRUE, anchors |-> d] : d \in Documents}
    \cup {[type |-> "text/plain", htmlName |-> n, anchors |-> d] :
             n \in BOOLEAN, d \in {<< >>, <<3>>}}

\* a file check that lets every file through
isHtmlFileAnyFile(file) == TRUE

\* the file check of processFile: the MIME type or the name says HTML
isHtmlFile(file) == file.type = "text/html" \/ file.htmlName

IdsOf(bs) == {bs[i].id : i \in 1..Len(bs)}

NoOp == [op |-> "none", ids |-> {}, parsed |-> << >>, added |-> << >>,
         deduped |-> FALSE, merge |-> FALSE, file |-> << >>, n |-> 0,
         unique |-> << >>, ai |-> "off"]

IdleWidget == [isProcessing |-> FALSE, isSuccess |-> FALSE, error |-> None,
               duplicatesFound |-> 0]

\* the filterOptions the hook starts with, and clearFilters sets
DefaultFilters ==
    [search |-> << >>, tags |-> << >>, sortBy |-> "dateAdded", sortDirection |-> "desc"]

IdleBrowserWidget == [isLoading |-> FALSE, success |-> FALSE, error |-> None,
                      progress |-> 0]

NormIdle ==
    /\ nin1 = << >> /\ nin2 = << >> /\ nrel = "none"
    /\ nout1 = None /\ nout2 = None /\ nagain = None
    /\ npc = "idle"

ParseIdle == pdoc = << >> /\ pout = None /\ ppc = "idle"

(***************************************************************************)
(* useBookmarks: the collection in localStorage                            *)
(***************************************************************************)
\* Date.prototype.toJSON: the ISO text of a timestamp
toISOString(t) == [iso |-> t]

\* JSON.stringify of a bookmark: the three Date fields become ISO text, an
\* undefined field is left out
stringifyBookmark(b) ==
    [b EXCEPT !.dateAdded = toISOString(b.dateAdded),
              !.lastViewedAt = IF b.lastViewedAt = None THEN None
                               ELSE Some(toISOString(b.lastViewedAt[1])),
              !.remindAt = IF b.remindAt = None THEN None
                           ELSE Some(toISOString(b.remindAt[1]))]

JSONstringify(bs) == [i \in 1..Len(bs) |-> stringifyBookmark(bs[i])]

\* the load effect on a stored text: JSON.parse, then new Date() on
\* dateAdded and on lastViewedAt and remindAt where present
loadBookmarks(text) ==
    [i \in 1..Len(text) |->
        [text[i] EXCEPT !.dateAdded = text[i].dateAdded.iso,
                        !.lastViewedAt = IF text[i].lastViewedAt = None THEN None
                                         ELSE Some(text[i].lastViewedAt[1].iso),
                        !.remindAt = IF text[i].remindAt = None THEN None
                                     ELSE Some(text[i].remindAt[1].iso)]]

\* the save effect of the hook of useBookmarks.ts, which runs when
\* setBookmarks has installed a new array; the hook of part_006 keeps the
\* collection in memory only
storedAfter(old, setCalled, newBookmarks) ==
    IF hook = "storage" /\ setCalled /\ Len(newBookmarks) > 0
    THEN Some(JSONstringify(newBookmarks)) ELSE old

EnhIdle ==
    /\ ein = << >> /\ eout = << >> /\ ebatch = 5 /\ ei = 0
    /\ eres = << >> /\ eprog = << >> /\ epc = "idle"

RaceIdle == rbase = << >> /\ runs = << >> /\ rover = FALSE

ConvIdle == cbrowser = "unknown" /\ ctree = << >> /\ cout = None /\ cpc = "idle"

SwIdle == cache = << >> /\ reqs = << >> /\ netver = 0

AuthIdle ==
    /\ users = {} /\ currentUser = None /\ localStore = None /\ sessionStore = None
    /\ dirty = FALSE /\ aclock = 0 /\ acalls = << >>

GridIdle ==
    /\ gbookmarks = << >> /\ selection = {} /\ isSelectionMode = FALSE
    /\ shareDialogOpen = FALSE /\ gclicks = 0

SideIdle == ConvIdle /\ SwIdle /\ AuthIdle /\ GridIdle

\* the application as it is mounted, with the four harnesses at rest
AppIdle ==
    /\ bookmarks = << >> /\ hook = "storage"
    /\ filterOptions = DefaultFilters
    /\ useAI = TRUE /\ autoDedupe = TRUE /\ mergeMetadata = TRUE
    /\ widget = IdleWidget /\ bwidget = IdleBrowserWidget
    /\ nextId = 1 /\ now = 8000 /\ lastOp = NoOp
    /\ nImports = 0 /\ nUiOps = 0 /\ nToggles = 0 /\ stored = None
    /\ NormIdle /\ ParseIdle /\ EnhIdle /\ RaceIdle

Init ==
    /\ bookmarks = SubSeq(getSampleBookmarks, 1, MaxSample)
    /\ hook \in HookVersions
    /\ filterOptions = DefaultFilters
    /\ useAI = TRUE /\ autoDedupe = TRUE /\ mergeMetadata = TRUE
    /\ widget = IdleWidget
    /\ bwidget = IdleBrowserWidget
    /\ nextId = Len(getSampleBookmarks) + 1
    /\ now = 8000
    /\ lastOp = NoOp
    /\ nImports = 0 /\ nUiOps = 0 /\ nToggles = 0
    /\ stored = storedAfter(None, TRUE, bookmarks)
    /\ NormIdle /\ ParseIdle /\ EnhIdle /\ RaceIdle /\ SideIdle

\* onImport / the addBookmarks of the mounted hook
onImport(prevBookmarks, newBookmarks) ==
    IF hook = "storage" THEN addBookmarks(prevBookmarks, newBookmarks)
    ELSE addBookmarksTagging(prevBookmarks, newBookmarks)

\* processFile with the file check after the import
processFileResultChecksLate(file, outcome) ==
    LET finish(parsed, deduped, r, enhanced) ==
            [error |-> None,
             bookmarks |-> IF Len(enhanced) > 0 THEN onImport(r.existing, enhanced)
                           ELSE r.existing,
             parsed |-> parsed, added |-> enhanced, deduped |-> deduped,
             dupes |-> Len(r.dupes), ids |-> idsDrawn(file.anchors),
             unique |-> r.unique,
             ai |-> IF useAI /\ Len(r.unique) > 0
                    THEN (IF outcome = "rejects" THEN "failed" ELSE "complete")
                    ELSE "off"]
        enhance(parsed, deduped, r) ==
            finish(parsed, deduped, r,
                   IF useAI /\ Len(r.unique) > 0
                   THEN aiPass(r.unique, outcome) ELSE r.unique)
        dedupe(parsed, deduped) ==
            enhance(parsed, deduped,
                    IF deduped THEN dedupeMerge(bookmarks, parsed, mergeMetadata)
                    ELSE [existing |-> bookmarks, unique |-> parsed, dupes |-> << >>])
        process(parsed0) ==
            IF Len(parsed0) = 0
            THEN [error |-> Some("No bookmarks found in the HTML file"),
                  bookmarks |-> bookmarks, parsed |-> << >>, added |-> << >>,
                  deduped |-> FALSE, dupes |-> 0, ids |-> idsDrawn(file.anchors),
                  unique |-> << >>, ai |-> "off"]
            ELSE dedupe([i \in 1..Len(parsed0) |->
                            [parsed0[i] EXCEPT !.title = cleanupTitleOf[parsed0[i].title]]],
                        autoDedupe /\ Len(bookmarks) > 0)
    IN  IF ~isHtmlFile(file)
        THEN [process(parseBookmarksHtml(file.anchors, nextId, now))
                 EXCEPT !.error = Some("Please upload an HTML file")]
        ELSE process(parseBookmarksHtml(file.anchors, nextId, now))

(***************************************************************************)
(* ImportBookmarks.processFile, from the drop of the file to its end; the  *)
(* prop existingBookmarks is the collection of the hook                    *)
(***************************************************************************)
processFileResult(file, outcome) ==
    LET finish(parsed, deduped, r, enhanced) ==
            [error |-> None,
             bookmarks |-> IF Len(enhanced) > 0 THEN onImport(r.existing, enhanced)
                           ELSE r.existing,
             parsed |-> parsed, added |-> enhanced, deduped |-> deduped,
             dupes |-> Len(r.dupes), ids |-> idsDrawn(file.anchors),
             unique |-> r.unique,
             ai |-> IF useAI /\ Len(r.unique) > 0
                    THEN (IF outcome = "rejects" THEN "failed" ELSE "complete")
                    ELSE "off"]
        enhance(parsed, deduped, r) ==
            finish(parsed, deduped, r,
                   IF useAI /\ Len(r.unique) > 0
                   THEN aiPass(r.unique, outcome) ELSE r.unique)
        dedupe(parsed, deduped) ==
            enhance(parsed, deduped,
                    IF deduped THEN dedupeMerge(bookmarks, parsed, mergeMetadata)
                    ELSE [existing |-> bookmarks, unique |-> parsed, dupes |-> << >>])
        process(parsed0) ==
            IF Len(parsed0) = 0
            THEN [error |-> Some("No bookmarks found in the HTML file"),
                  bookmarks |-> bookmarks, parsed |-> << >>, added |-> << >>,
                  deduped |-> FALSE, dupes |-> 0, ids |-> idsDrawn(file.anchors),
                  unique |-> << >>, ai |-> "off"]
            ELSE dedupe([i \in 1..Len(parsed0) |->
                            [parsed0[i] EXCEPT !.title = cleanupTitleOf[parsed0[i].title]]],
                        autoDedupe /\ Len(bookmarks) > 0)
    IN  IF ~isHtmlFile(file)
        THEN [error |-> Some("Please upload an HTML file"), bookmarks |-> bookmarks,
              parsed |-> << >>, added |-> << >>, deduped |-> FALSE, dupes |-> 0, ids |-> 0,
              unique |-> << >>, ai |-> "off"]
        ELSE process(parseBookmarksHtml(file.anchors, nextId, now))

ProcessFile(file, outcome) ==
    /\ nImports < MaxImports
    /\ \E res \in {processFileResult(file, outcome)} :
           /\ bookmarks' = res.bookmarks
           /\ widget' = [isProcessing |-> FALSE, isSuccess |-> res.error = None,
                         error |-> res.error, duplicatesFound |-> res.dupes]
           /\ nextId' = nextId + res.ids
           /\ lastOp' = [op |-> "processFile", ids |-> {}, parsed |-> res.parsed,
                         added |-> res.added, deduped |-> res.deduped,
                         merge |-> mergeMetadata, file |-> file, n |-> nImports + 1,
                         unique |-> res.unique, ai |-> res.ai]
           /\ stored' = storedAfter(stored, Len(res.added) > 0, res.bookmarks)
    /\ nImports' = nImports + 1
    /\ now' = now + 1000
    /\ UNCHANGED <<filterOptions, hook, useAI, autoDedupe, mergeMetadata, bwidget, nUiOps, nToggles>>
    /\ UNCHANGED harnessVars

(***************************************************************************)
(* BrowserImport.handleImport, from the click to its end                   *)
(***************************************************************************)
\* what requestBrowserPermissions settles with: the user grants or denies,
\* or permissions.request rejects
Permissions == {"granted", "denied", "rejects"}

\* a handleImport that goes on to the import after a denial
handleImportResultIgnoresDenial(permission, api, tree, firstId, clock) ==
    LET imported(converted) ==
            [error |-> IF Len(converted) = 0 THEN Some("No bookmarks found") ELSE None,
             success |-> Len(converted) > 0,
             progress |-> IF Len(converted) = 0 THEN 70 ELSE 100,
             called |-> TRUE, converted |-> converted, tree |-> tree]
    IN  imported(convertChromeBookmarks(tree, firstId, clock))

\* handleImport from the click to the values it leaves: `called` says that
\* importFromBrowser was called, `converted` is what it resolved with
handleImportResult(permission, api, tree, firstId, clock) ==
    LET failed(message, progress, called) ==
            [error |-> Some(message), success |-> FALSE, progress |-> progress,
             called |-> called, converted |-> << >>, tree |-> << >>]
        imported(converted) ==
            [error |-> IF Len(converted) = 0 THEN Some("No bookmarks found") ELSE None,
             success |-> Len(converted) > 0,
             progress |-> IF Len(converted) = 0 THEN 70 ELSE 100,
             called |-> TRUE, converted |-> converted, tree |-> tree]
    IN  IF permission = "rejects" THEN failed("Failed to import bookmarks", 0, FALSE)
        ELSE IF permission = "denied"
        THEN failed("Permission to access bookmarks was denied", 0, FALSE)
        ELSE IF ~api THEN failed("Chrome bookmarks API is not available", 30, TRUE)
        ELSE imported(convertChromeBookmarks(tree, firstId, clock))

HandleImport(permission, api, tree) ==
    /\ nImports < MaxImports
    /\ \E res \in {handleImportResult(permission, api, tree, nextId, now)} :
           /\ bookmarks' = IF res.success THEN onImport(bookmarks, res.converted)
                            ELSE bookmarks
           /\ bwidget' = [isLoading |-> FALSE, success |-> res.success,
                          error |-> res.error, progress |-> res.progress]
           /\ nextId' = nextId + Len(res.converted)
           /\ lastOp' = [op |-> "browserImport", ids |-> {}, parsed |-> << >>,
                         added |-> IF res.success THEN res.converted ELSE << >>,
                         deduped |-> FALSE, merge |-> FALSE,
                         file |-> [permission |-> permission, called |-> res.called,
                                   tree |-> res.tree],
                         n |-> nImports + 1, unique |-> << >>, ai |-> "off"]
           /\ stored' = storedAfter(stored, res.success, bookmarks')
    /\ nImports' = nImports + 1
    /\ now' = now + 1000
    /\ UNCHANGED <<filterOptions, hook, useAI, autoDedupe, mergeMetadata, widget, nUiOps, nToggles>>
    /\ UNCHANGED harnessVars

(***************************************************************************)
(* useBookmarks: the card and toolbar operations                           *)
(***************************************************************************)
UiOp(op, ids, newBookmarks) ==
    /\ nUiOps < MaxUiOps
    /\ bookmarks' = newBookmarks
    /\ lastOp' = [NoOp EXCEPT !.op = op, !.ids = ids, !.n = nUiOps + 1]
    /\ stored' = storedAfter(stored, TRUE, bookmarks')
    /\ nUiOps' = nUiOps + 1
    /\ UNCHANGED <<filterOptions, hook, useAI, autoDedupe, mergeMetadata, widget, bwidget, nextId,
                   now, nImports, nToggles>>
    /\ UNCHANGED harnessVars

\* a like that counts on both sides
likeBookmarkBoth(bs, id, isLike) ==
    [i \in 1..Len(bs) |->
        IF bs[i].id # id THEN bs[i]
        ELSE [bs[i] EXCEPT !.likes = bs[i].likes + 1, !.dislikes = bs[i].dislikes + 1]]

likeBookmark(bs, id, isLike) ==
    [i \in 1..Len(bs) |->
        IF bs[i].id # id THEN bs[i]
        ELSE IF isLike THEN [bs[i] EXCEPT !.likes = bs[i].likes + 1]
        ELSE [bs[i] EXCEPT !.dislikes = bs[i].dislikes + 1]]

LikeBookmark(id, isLike) ==
    UiOp(IF isLike THEN "like" ELSE "dislike", {id}, likeBookmark(bookmarks, id, isLike))

deleteBookmark(bs, id) == filterOutIds(bs, {id})

DeleteBookmark(id) == UiOp("delete", {id}, deleteBookmark(bookmarks, id))

\* !bookmark.archived
archiveBookmark(bs, id) ==
    [i \in 1..Len(bs) |->
        IF bs[i].id # id THEN bs[i]
        ELSE [bs[i] EXCEPT !.archived = Some(bs[i].archived # Some(TRUE))]]

ArchiveBookmark(id) == UiOp("archive", {id}, archiveBookmark(bookmarks, id))

remindBookmark(bs, id, clock) ==
    [i \in 1..Len(bs) |->
        IF bs[i].id # id THEN bs[i]
        ELSE [bs[i] EXCEPT !.remindAt = Some(clock + SevenDays)]]

RemindBookmark(id) == UiOp("remind", {id}, remindBookmark(bookmarks, id, now))

\* the bulk action whose 'archive' takes the bookmarks out of the list
handleBulkActionArchiveRemoves(bs, action, ids, clock) ==
    CASE action \in {"delete", "archive"} -> filterOutIds(bs, ids)
      [] action = "remind"  ->
            [i \in 1..Len(bs) |->
                IF bs[i].id \notin ids THEN bs[i]
                ELSE [bs[i] EXCEPT !.remindAt = Some(clock + SevenDays)]]
      [] OTHER -> bs

handleBulkAction(bs, action, ids, clock) ==
    CASE action = "delete"  -> filterOutIds(bs, ids)
      [] action = "archive" ->
            [i \in 1..Len(bs) |->
                IF bs[i].id \notin ids THEN bs[i]
                ELSE [bs[i] EXCEPT !.archived = Some(TRUE)]]
      [] action = "remind"  ->
            [i \in 1..Len(bs) |->
                IF bs[i].id \notin ids THEN bs[i]
                ELSE [bs[i] EXCEPT !.remindAt = Some(clock + SevenDays)]]
      [] OTHER -> bs

BulkActions == {"delete", "archive", "remind", "tag"}

HandleBulkAction(action, ids) ==
    UiOp("bulk-" \o action, ids, handleBulkAction(bookmarks, action, ids, now))

\* the filter bar: a change of filterOptions
SetFilterOptions(newOptions) ==
    /\ nToggles < MaxToggles
    /\ nToggles' = nToggles + 1
    /\ filterOptions' = newOptions
    /\ UNCHANGED <<bookmarks, stored, hook, useAI, autoDedupe, mergeMetadata, widget,
                   bwidget, nextId, now, lastOp, nImports, nUiOps>>
    /\ UNCHANGED harnessVars

UpdateFilters(search) == SetFilterOptions([filterOptions EXCEPT !.search = search])

toggleTagFilter(prev, tag) ==
    IF \E i \in 1..Len(prev.tags) : prev.tags[i] = tag
    THEN [prev EXCEPT !.tags = SelectSeq(prev.tags, LAMBDA t : t # tag)]
    ELSE [prev EXCEPT !.tags = Append(prev.tags, tag)]

ToggleTagFilter(tag) == SetFilterOptions(toggleTagFilter(filterOptions, tag))

ClearFilters == SetFilterOptions(DefaultFilters)

SetSortOptions(sortBy, sortDirection) ==
    SetFilterOptions([filterOptions EXCEPT !.sortBy = sortBy,
                                           !.sortDirection = sortDirection])

\* the switches of the import widget
SetUseAI ==
    /\ nToggles < MaxToggles
    /\ nToggles' = nToggles + 1
    /\ useAI' = ~useAI
    /\ UNCHANGED <<filterOptions, bookmarks, stored, hook, autoDedupe, mergeMetadata, widget, bwidget, nextId,
                   now, lastOp, nImports, nUiOps>>
    /\ UNCHANGED harnessVars

SetAutoDedupe ==
    /\ nToggles < MaxToggles
    /\ nToggles' = nToggles + 1
    /\ autoDedupe' = ~autoDedupe
    /\ UNCHANGED <<filterOptions, bookmarks, stored, hook, useAI, mergeMetadata, widget, bwidget, nextId,
                   now, lastOp, nImports, nUiOps>>
    /\ UNCHANGED harnessVars

\* the merge switch is rendered only while autoDedupe is on
SetMergeMetadata ==
    /\ nToggles < MaxToggles
    /\ nToggles' = nToggles + 1
    /\ autoDedupe
    /\ mergeMetadata' = ~mergeMetadata
    /\ UNCHANGED <<filterOptions, bookmarks, stored, hook, useAI, autoDedupe, widget, bwidget, nextId,
                   now, lastOp, nImports, nUiOps>>
    /\ UNCHANGED harnessVars

\* the cards the user acts on: the first and the last card of the grid, and
\* the selections of the toolbar: the first card alone, and all cards
CardIds ==
    IF bookmarks = << >> THEN {0}
    ELSE {bookmarks[1].id, bookmarks[Len(bookmarks)].id}

Selections ==
    IF bookmarks = << >> THEN {{}}
    ELSE {{bookmarks[1].id}, IdsOf(bookmarks)}

Next ==
    \/ \E file \in Files, outcome \in EnhanceOutcomes : ProcessFile(file, outcome)
    \/ \E permission \in Permissions, api \in BOOLEAN, tree \in BrowserTrees :
          HandleImport(permission, api, tree)
    \/ \E id \in CardIds \cup {0}, isLike \in BOOLEAN : LikeBookmark(id, isLike)
    \/ \E id \in CardIds : DeleteBookmark(id)
    \/ \E id \in CardIds : ArchiveBookmark(id)
    \/ \E id \in CardIds : RemindBookmark(id)
    \/ \E action \in BulkActions, ids \in Selections :
          HandleBulkAction(action, ids)
    \/ UpdateFilters(<<"g","i","t">>)
    \/ ToggleTagFilter(<<"t","e","c","h">>)
    \/ ClearFilters
    \/ SetSortOptions("likes", "asc")
    \/ SetUseAI
    \/ SetAutoDedupe
    \/ SetMergeMetadata

Spec == Init /\ [][Next]_vars

(***************************************************************************)
(* Properties of the import pipeline and of the collection                 *)
(***************************************************************************)
\* a step that is an import (HTML or browser)
ImportStep == nImports' = nImports + 1

\* the incoming bookmarks of the import `o` that the pipeline classifies as
\* duplicates of the bookmark `ex` of the collection: by normalized URL
\* when the dedupe block of processFile ran, by URL in addBookmarks
DuplicatesOf(o, ex) ==
    IF o.deduped
    THEN {o.parsed[k] : k \in {j \in 1..Len(o.parsed) :
                normalizeUrlOf[o.parsed[j].url] = normalizeUrlOf[ex.url]}}
    ELSE {o.added[k] : k \in {j \in 1..Len(o.added) : o.added[j].url = ex.url}}

Max(S) == CHOOSE x \in S : \A y \in S : y <= x

\* C1: over an import, every bookmark of the collection that an incoming
\* bookmark duplicates keeps its place, its id, its likes and its dislikes,
\* and the id of no incoming duplicate is in the collection afterwards
C1_DuplicateKeepsIdentity ==
    [][ImportStep =>
        \A i \in 1..Len(bookmarks) :
            DuplicatesOf(lastOp', bookmarks[i]) # {} =>
                /\ i <= Len(bookmarks')
                /\ bookmarks'[i].id = bookmarks[i].id
                /\ bookmarks'[i].likes = bookmarks[i].likes
                /\ bookmarks'[i].dislikes = bookmarks[i].dislikes
                /\ \A d \in DuplicatesOf(lastOp', bookmarks[i]) :
                      d.id \notin IdsOf(bookmarks')]_vars

\* an import has just replaced the first sample bookmark by a newer incoming
\* bookmark of the same URL, and the sample kept its id and its counters
C1_Witness ==
    /\ lastOp.op \in {"processFile", "browserImport"}
    /\ ~lastOp.deduped
    /\ \E i \in 1..Len(bookmarks) :
          /\ DuplicatesOf(lastOp, bookmarks[i]) # {}
          /\ bookmarks[i].id = 1
          /\ bookmarks[i].dateAdded = 9000
          /\ bookmarks[i].likes = 42 /\ bookmarks[i].dislikes = 2

\* C2: an id leaves the collection only in a deleteBookmark step or in a
\* bulk 'delete' step that names it; imports, likes, archives and reminders
\* lose no id
C2_IdsLeaveOnlyByDelete ==
    [][\A id \in IdsOf(bookmarks) \ IdsOf(bookmarks') :
          /\ lastOp'.op \in {"delete", "bulk-delete"}
          /\ id \in lastOp'.ids]_vars

\* after an import that added bookmarks, a delete took the first card out
\* and left the others in
C2_Witness ==
    /\ lastOp.op \in {"delete", "bulk-delete"}
    /\ nImports >= 1
    /\ lastOp.ids = {1}
    /\ 1 \notin IdsOf(bookmarks)
    /\ Len(bookmarks) >= 1

\* C3: the sample collection has pairwise different normalized URLs, and
\* while no switch of the import widget was flipped (deduplication on in
\* every import) no two bookmarks of the collection have the same
\* normalized URL
C3_NoNormalizedDuplicates ==
    nToggles = 0 =>
        \A i, j \in 1..Len(bookmarks) :
            i # j => normalizeUrlOf[bookmarks[i].url] # normalizeUrlOf[bookmarks[j].url]

\* C4: a file import that directly follows a successful import of the same
\* file, deduplication on in both and the merge switch as it was, finds
\* every incoming bookmark to be a duplicate and leaves the collection as
\* the first import left it
C4_SecondMergeChangesNothing ==
    [][(/\ ImportStep
        /\ lastOp.op = "processFile" /\ lastOp'.op = "processFile"
        /\ lastOp'.file = lastOp.file
        /\ lastOp.deduped /\ autoDedupe
        /\ lastOp.merge = mergeMetadata
        /\ widget.isSuccess)
       => /\ widget'.duplicatesFound = Len(lastOp'.parsed)
          /\ bookmarks' = bookmarks]_vars

\* C5: over an import with the merge switch on, the tag set of every
\* bookmark of the collection becomes the union of its tags and of the tags
\* of all the incoming bookmarks that duplicate it, without repetitions
C5_TagsAreUnion ==
    [][(ImportStep /\ mergeMetadata) =>
        \A i \in 1..Len(bookmarks) :
            /\ i <= Len(bookmarks')
            /\ Range(bookmarks'[i].tags) =
                  Range(bookmarks[i].tags)
                    \cup UNION {Range(d.tags) : d \in DuplicatesOf(lastOp', bookmarks[i])}
            /\ Cardinality(Range(bookmarks'[i].tags)) = Len(bookmarks'[i].tags)]_vars

\* C6: over an import that merges (the dedupe block with the merge switch
\* on, or addBookmarks), the dateAdded of every bookmark of the collection
\* becomes the latest of its own date and the dates of the incoming
\* bookmarks that duplicate it: it is replaced only by a strictly later
\* date and never moves backwards
C6_DateIsLatest ==
    [][(ImportStep /\ (lastOp'.deduped => lastOp'.merge)) =>
        \A i \in 1..Len(bookmarks) :
            /\ i <= Len(bookmarks')
            /\ bookmarks'[i].dateAdded =
                  Max({bookmarks[i].dateAdded}
                        \cup {d.dateAdded : d \in DuplicatesOf(lastOp', bookmarks[i])})]_vars

\* C7: over an import, the description of a bookmark of the collection
\* changes only when it was empty, and then to the description of an
\* incoming bookmark that duplicates it
C7_DescriptionOnlyFilled ==
    [][ImportStep =>
        \A i \in 1..Len(bookmarks) :
            /\ i <= Len(bookmarks')
            /\ bookmarks'[i].description # bookmarks[i].description =>
                  /\ bookmarks[i].description \in {None, Some(<< >>)}
                  /\ \E d \in DuplicatesOf(lastOp', bookmarks[i]) :
                        bookmarks'[i].description = d.description]_vars

\* C8: no import changes the archived, remindAt, lastViewedAt or analytics
\* field of a bookmark that was in the collection
C8_LifecycleUntouched ==
    [][ImportStep =>
        \A i \in 1..Len(bookmarks) :
            /\ i <= Len(bookmarks')
            /\ bookmarks'[i].archived = bookmarks[i].archived
            /\ bookmarks'[i].remindAt = bookmarks[i].remindAt
            /\ bookmarks'[i].lastViewedAt = bookmarks[i].lastViewedAt
            /\ bookmarks'[i].analytics = bookmarks[i].analytics]_vars

\* the bookmarks of a parsed batch whose URL new URL() rejects
Unparsable(parsed) == {parsed[k] : k \in {j \in 1..Len(parsed) : ~parsesOf[parsed[j].url]}}

\* C11: normalizeUrl returns the lower-cased input for a string that does not
\* parse as a URL, and a file import whose batch holds such a string
\* completes: it ends in the success state, every parsed bookmark is either
\* counted as a duplicate or handed to onImport, and the collection holds a
\* bookmark under the lower-cased string
C11_UnparsableUrlRecovered ==
    (lastOp.op = "processFile" /\ Unparsable(lastOp.parsed) # {}) =>
        /\ widget.isSuccess /\ widget.error = None
        /\ widget.duplicatesFound + Len(lastOp.added) = Len(lastOp.parsed)
        /\ \A b \in Unparsable(lastOp.parsed) :
              /\ normalizeUrlOf[b.url] = toLowerCase(b.url)
              /\ \E i \in 1..Len(bookmarks) :
                    normalizeUrlOf[bookmarks[i].url] = toLowerCase(b.url)

\* the second import of the document with the href that is not a URL found
\* both of its bookmarks in the collection and merged them
C11_Witness ==
    /\ lastOp.op = "processFile" /\ lastOp.deduped /\ lastOp.merge
    /\ Unparsable(lastOp.parsed) # {}
    /\ widget.duplicatesFound = 2
    /\ widget.isSuccess

\* C13: an import of a file that ends in the error state (wrong file type or
\* no bookmark parsed) has not called onImport and leaves the collection,
\* every field of every bookmark included, as it was
C13_ErrorLeavesCollection ==
    [][(ImportStep /\ lastOp'.op = "processFile" /\ widget'.error # None) =>
          /\ lastOp'.added = << >>
          /\ bookmarks' = bookmarks
          /\ ~widget'.isSuccess]_vars

\* after an import that added bookmarks, a file without bookmarks ended in
\* the error state
C13_Witness ==
    /\ lastOp.op = "processFile" /\ lastOp.n = 2
    /\ widget.error = Some("No bookmarks found in the HTML file")
    /\ Len(bookmarks) > MaxSample

\* C22: importing an HTML document with a single anchor (href u, add_date
\* d) into an empty collection gives a collection of exactly one bookmark,
\* with url u unchanged, dateAdded d seconds after the epoch and the tags
\* the classifier returns for u
C22_SingleAnchorImport ==
    [][(/\ bookmarks = << >> /\ ImportStep /\ lastOp'.op = "processFile"
        /\ isHtmlFile(lastOp'.file) /\ Len(lastOp'.file.anchors) = 1) =>
          /\ Len(bookmarks') = 1
          /\ bookmarks'[1].url = AnchorPool[lastOp'.file.anchors[1]].href[1]
          /\ bookmarks'[1].dateAdded =
                 AnchorPool[lastOp'.file.anchors[1]].add_date[1] * 1000
          /\ bookmarks'[1].tags =
                 tagBookmark(bookmarks'[1].url, bookmarks'[1].title,
                             IF bookmarks'[1].description = None THEN << >>
                             ELSE bookmarks'[1].description[1])]_vars

\* C23: in the browser import a denied permission ends handleImport in the
\* error state with the permission-denied message, which is not the "No
\* bookmarks found" message an empty tree ends with, and importFromBrowser
\* is not called after the denial; in both cases and in every other failing
\* case onImport is not called, so the collection is what it was
C23_DenialIsNotEmptyTree ==
    [][(ImportStep /\ lastOp'.op = "browserImport") =>
          /\ lastOp'.file.permission = "denied" =>
                /\ bwidget'.error = Some("Permission to access bookmarks was denied")
                /\ bwidget'.error # Some("No bookmarks found")
                /\ ~lastOp'.file.called
                /\ nextId' = nextId
          /\ (/\ lastOp'.file.tree # << >>
              /\ convertChromeBookmarks(lastOp'.file.tree, nextId, now) = << >>) =>
                bwidget'.error = Some("No bookmarks found")
          /\ bwidget'.error # None =>
                /\ ~bwidget'.success
                /\ lastOp'.added = << >>
                /\ bookmarks' = bookmarks
                /\ stored' = stored]_vars

\* after a browser import that added bookmarks, a second click was denied
C23_Witness ==
    /\ lastOp.op = "browserImport" /\ lastOp.n = 2
    /\ lastOp.file.permission = "denied"
    /\ bwidget.error = Some("Permission to access bookmarks was denied")
    /\ bwidget.progress = 0
    /\ Len(bookmarks) > MaxSample

\* C25: likeBookmark(id, isLike) adds exactly 1 to the likes (isLike) or to
\* the dislikes (not isLike) of the bookmark with that id and changes nothing
\* else: the other fields of that bookmark, the other bookmarks, the order
\* of the collection and the filter state are what they were, and nothing
\* changes when no bookmark has that id
C25_LikeChangesOneCounter ==
    [][(nUiOps' = nUiOps + 1 /\ lastOp'.op \in {"like", "dislike"}) =>
          /\ Len(bookmarks') = Len(bookmarks)
          /\ \A i \in 1..Len(bookmarks) :
                IF bookmarks[i].id \notin lastOp'.ids THEN bookmarks'[i] = bookmarks[i]
                ELSE IF lastOp'.op = "like"
                THEN bookmarks'[i] =
                        [bookmarks[i] EXCEPT !.likes = bookmarks[i].likes + 1]
                ELSE bookmarks'[i] =
                        [bookmarks[i] EXCEPT !.dislikes = bookmarks[i].dislikes + 1]
          /\ Cardinality({i \in 1..Len(bookmarks) : bookmarks[i].id \in lastOp'.ids}) <= 1
          /\ filterOptions' = filterOptions
          /\ (lastOp'.ids \cap IdsOf(bookmarks) = {}) => bookmarks' = bookmarks]_vars

\* with a tag filter set, the last card of a collection of several
\* bookmarks was disliked
C25_Witness ==
    /\ lastOp.op = "dislike"
    /\ filterOptions.tags = <<<<"t","e","c","h">>>>
    /\ Len(bookmarks) > 1
    /\ bookmarks[Len(bookmarks)].id \in lastOp.ids
    /\ bookmarks[Len(bookmarks)].dislikes = 1
    /\ bookmarks[Len(bookmarks)].likes = 0

C15_AiFailureStillImports ==
    [][(ImportStep /\ lastOp'.op = "processFile" /\ lastOp'.ai = "failed") =>
          /\ lastOp'.unique # << >>
          /\ lastOp'.added = lastOp'.unique
          /\ \A k \in 1..Len(lastOp'.added) :
                /\ lastOp'.added[k].screenshot = None
                /\ lastOp'.added[k].description = Some(<< >>)
                /\ \E i \in 1..Len(bookmarks') :
                      bookmarks'[i].url = lastOp'.added[k].url
          /\ widget'.isSuccess /\ widget'.error = None]_vars

\* an import with deduplication whose enhancement rejected added a new
\* bookmark to the collection
C15_Witness ==
    /\ lastOp.op = "processFile" /\ lastOp.ai = "failed"
    /\ lastOp.deduped
    /\ Len(lastOp.added) = 1
    /\ Len(bookmarks) = MaxSample + 1
    /\ widget.isSuccess

\* C19: in the hook that keeps the collection in localStorage, after every
\* change of the collection (import, like, archive, remind, delete, bulk
\* action) the stored text is the serialization of the new collection:
\* loading it gives exactly the new collection, dates as timestamps
C19_StoredIsCollection ==
    [][(hook = "storage" /\ bookmarks' # bookmarks) =>
          /\ stored' # None
          /\ loadBookmarks(stored'[1]) = bookmarks']_vars

(***************************************************************************)
(* URL normalizer harness: inputs                                          *)
(***************************************************************************)
MaxParams == 2

NormHosts == {<<"h","t","t","p","s",":","/","/","e","x",".","c","o","m">>, <<"h","t","t","p","s",":","/","/","E","X",".","c","o","m">>}

NormPaths == {<< >>, <<"/","a">>, <<"/","a","/">>, <<"/","a","/","/">>}

NormParams == {<<"b","=","1">>, <<"c">>, <<"u","t","m","_","s","=","x">>, <<"r","e","f","=","x">>, <<"R","E","F","=","x">>}

TrackingParams == {<<"u","t","m","_","s","=","x">>, <<"r","e","f","=","x">>, <<"s","o","u","r","c","e","=","x">>}

NormHashes == {<< >>, <<"#","h">>, <<"#","H">>}

NormQueries == SeqsUpTo(NormParams, MaxParams)

Render(host, path, q, hash) ==
    host \o path \o (IF q = << >> THEN << >> ELSE <<"?">> \o join(q, <<"&">>)) \o hash

InsertAt(s, i, e) == SubSeq(s, 1, i - 1) \o <<e>> \o SubSeq(s, i, Len(s))

\* pairs <<u1, u2, relation>>: u2 is u1 with only the letter case changed,
\* with one tracking parameter added, or with one slash added to a path that
\* has no trailing slash
NormPairs(h, p, q, f) ==
    {<<Render(h, p, q, f), Render(h, p, q, f), "same">>}
    \cup {<<Render(h, p, q, f), Render(h2, p, q2, f2), "case">> :
            h2 \in NormHosts, f2 \in {g \in NormHashes : toLowerCase(g) = toLowerCase(f)},
            q2 \in {r \in NormQueries : Len(r) = Len(q) /\
                      \A i \in 1..Len(q) : toLowerCase(r[i]) = toLowerCase(q[i])}}
    \cup {<<Render(h, p, q, f), Render(h, p, InsertAt(q, i, t), f), "tracking">> :
            i \in 1..(Len(q) + 1), t \in TrackingParams}
    \cup (IF endsWith(p, <<"/">>) THEN {}
          ELSE {<<Render(h, p, q, f), Render(h, p \o <<"/">>, q, f), "slash">>})

NormInit ==
    /\ bookmarks = << >> /\ hook = "storage"
    /\ filterOptions = DefaultFilters
    /\ useAI = TRUE /\ autoDedupe = TRUE /\ mergeMetadata = TRUE
    /\ widget = IdleWidget /\ bwidget = IdleBrowserWidget
    /\ nextId = 1 /\ now = 8000 /\ lastOp = NoOp /\ nImports = 0 /\ nUiOps = 0 /\ nToggles = 0
    /\ stored = None
    /\ \E h \in NormHosts, p \in NormPaths, q \in NormQueries, f \in NormHashes :
          \E pr \in NormPairs(h, p, q, f) :
              nin1 = pr[1] /\ nin2 = pr[2] /\ nrel = pr[3]
    /\ nout1 = None /\ nout2 = None /\ nagain = None
    /\ npc = "input"
    /\ ParseIdle /\ EnhIdle /\ RaceIdle /\ SideIdle

\* the harness applies normalizeUrl to both inputs
NormApply ==
    /\ npc = "input"
    /\ nout1' = Some(normalizeUrl(nin1))
    /\ nout2' = Some(normalizeUrl(nin2))
    /\ npc' = "once"
    /\ UNCHANGED <<nin1, nin2, nrel, nagain>>
    /\ UNCHANGED <<collVars, parseVars, enhVars, raceVars, sideVars>>

\* the harness applies normalizeUrl to the first result
NormReapply ==
    /\ npc = "once"
    /\ nagain' = Some(normalizeUrl(nout1[1]))
    /\ npc' = "twice"
    /\ UNCHANGED <<nin1, nin2, nrel, nout1, nout2>>
    /\ UNCHANGED <<collVars, parseVars, enhVars, raceVars, sideVars>>

NormNext == NormApply \/ NormReapply

SpecNorm == NormInit /\ [][NormNext]_vars

(***************************************************************************)
(* Properties of normalizeUrl                                              *)
(***************************************************************************)
\* the names of the query parameters of a URL string, in order
ParamNames(url) ==
    LET ps == URLSearchParams(ParseUrl(url).search)
    IN  [i \in 1..Len(ps) |-> ps[i][1]]

\* C9: normalizeUrl is idempotent: for every valid URL u,
\* normalizeUrl(normalizeUrl(u)) = normalizeUrl(u)
C9_Idempotent ==
    (npc = "twice" /\ ParseUrl(nin1).ok) => nagain = nout1

\* C10: two URLs that differ only by tracking parameters, by one trailing
\* slash or by letter case have the same normalizeUrl result, and the
\* parameters that are not tracking parameters keep their relative order
C10_Equivalent ==
    npc # "input" =>
        /\ nrel \in {"case", "tracking", "slash"} => nout1 = nout2
        /\ ParamNames(nout1[1]) =
              toLowerCaseAll(SelectSeq(ParamNames(nin1), isEssentialParam))

(***************************************************************************)
(* Parser harness: parseBookmarksHtml on documents of up to MaxAnchors <a> *)
(* elements, read at a clock before or after the add_date values           *)
(***************************************************************************)
MaxAnchors == 3

\* the elements a document of the harness is made of: three elements with
\* the same href (dated 2, dated 7, undated), three with other hrefs and the
\* two elements without an href
ParseAnchors == {1, 2, 3, 5, 6, 7, 8, 9}

ParseClocks == {1000, 8000}

ParseInit ==
    /\ bookmarks = << >> /\ hook = "storage"
    /\ filterOptions = DefaultFilters
    /\ useAI = TRUE /\ autoDedupe = TRUE /\ mergeMetadata = TRUE
    /\ widget = IdleWidget /\ bwidget = IdleBrowserWidget
    /\ nextId = 1 /\ lastOp = NoOp /\ nImports = 0 /\ nUiOps = 0 /\ nToggles = 0
    /\ stored = None
    /\ now \in ParseClocks
    /\ NormIdle /\ EnhIdle /\ RaceIdle /\ SideIdle
    /\ pdoc \in SeqsUpTo(ParseAnchors, MaxAnchors)
    /\ pout = None
    /\ ppc = "input"

\* the harness parses the document
ParseApply ==
    /\ ppc = "input"
    /\ pout' = Some(parseBookmarksHtml(pdoc, nextId, now))
    /\ nextId' = nextId + idsDrawn(pdoc)
    /\ ppc' = "done"
    /\ UNCHANGED <<filterOptions, bookmarks, hook, useAI, autoDedupe, mergeMetadata, widget, bwidget,
                   now, lastOp, nImports, nUiOps, nToggles, stored, pdoc>>
    /\ UNCHANGED <<normVars, enhVars, raceVars, sideVars>>

ParseNext == ParseApply

SpecParse == ParseInit /\ [][ParseNext]_vars

\* the <a> elements of a document that carry the href
AnchorsOf(doc, href) ==
    {AnchorPool[doc[i]] : i \in {j \in 1..Len(doc) : AnchorPool[doc[j]].href = Some(href)}}

\* the non-empty hrefs of a document
HrefsOf(doc) ==
    {a.href[1] : a \in {AnchorPool[doc[i]] : i \in
                          {j \in 1..Len(doc) : AnchorPool[doc[j]].href \notin {None, Some(<< >>)}}}}

\* the date of an <a> element read at a clock
AnchorDate(a, clock) == IF a.add_date # None THEN a.add_date[1] * 1000 ELSE clock

\* C12: parseBookmarksHtml returns exactly one bookmark for each distinct
\* href of the document and none for the elements without an href; the
\* bookmark of an href carries the latest date among the elements with that
\* href
C12_OnePerHrefLatest ==
    ppc = "done" =>
        /\ \A i, j \in 1..Len(pout[1]) : pout[1][i].url = pout[1][j].url => i = j
        /\ {pout[1][i].url : i \in 1..Len(pout[1])} = HrefsOf(pdoc)
        /\ \A i \in 1..Len(pout[1]) :
              pout[1][i].dateAdded =
                  Max({AnchorDate(a, now) : a \in AnchorsOf(pdoc, pout[1][i].url)})

\* a document with three elements of one href, the latest in the middle,
\* gave one bookmark
C12_Witness ==
    /\ ppc = "done"
    /\ pdoc = <<3, 6, 9>> /\ now = 1000
    /\ Len(pout[1]) = 1
    /\ pout[1][1].dateAdded = 7000

\* C20: the tag list that generateTagsFromUrl, in either version, gives to
\* a bookmark, and so the tags of every bookmark parseBookmarksHtml returns,
\* is not empty and every tag of it is a BookmarkCategory
C20_TagsInTaxonomy ==
    ppc = "done" =>
        \A i \in 1..Len(pout[1]) :
            /\ pout[1][i].tags # << >>
            /\ Range(pout[1][i].tags) \subseteq BookmarkCategory
            /\ generateTagsFromUrlCategories(pout[1][i].url) # << >>
            /\ Range(generateTagsFromUrlCategories(pout[1][i].url))
                  \subseteq BookmarkCategory

(***************************************************************************)
(* Enhancement harness: the loop of enhanceBookmarksWithAI, one step per   *)
(* batch, on up to MaxEnhance bookmarks with one outcome per bookmark      *)
(***************************************************************************)
MaxEnhance == 3

\* batchSize: 5 is what processFile passes (ImportBookmarks.tsx:168)
BatchSizes == {1, 2, 5}

\* what can happen to one bookmark: its page is fetched, the fetch falls
\* back, or generatePlaceholderImage throws in captureScreenshot, in the try
\* and in the catch, so that the promise of the bookmark rejects
BookmarkOutcomes == FetchOutcomes \cup {"nocanvas"}

EnhanceAnchors == {1, 3, 5, 10}

\* the batches processFile can hand over: parsed, titles cleaned
EnhanceInputs ==
    {[i \in 1..Len(parsed) |->
         [parsed[i] EXCEPT !.title = cleanupTitleOf[parsed[i].title]]] :
     parsed \in {parseBookmarksHtml(doc, 1, 8000) :
                    doc \in SeqsUpTo(EnhanceAnchors, MaxEnhance)}}

\* a progress report without Math.min
progressOfUnclamped(i, batchSize, totalBookmarks) == i + batchSize

\* Math.min(i + batchSize, totalBookmarks)
progressOf(i, batchSize, totalBookmarks) ==
    IF i + batchSize < totalBookmarks THEN i + batchSize ELSE totalBookmarks

\* bookmarks.slice(from, to)
slice(bs, from, to) == SubSeq(bs, from + 1, IF to < Len(bs) THEN to ELSE Len(bs))

\* a catch branch that pushes nothing
enhanceBatchDropsFailed(batch, outcomes) ==
    IF \E k \in 1..Len(batch) : outcomes[k] = "nocanvas" THEN << >>
    ELSE [k \in 1..Len(batch) |-> enhanceOne(batch[k], outcomes[k])]

\* the try/catch of one batch: Promise.all over the bookmarks of the batch;
\* one rejection rejects the whole and the catch pushes the batch as it came
enhanceBatch(batch, outcomes) ==
    IF \E k \in 1..Len(batch) : outcomes[k] = "nocanvas" THEN batch
    ELSE [k \in 1..Len(batch) |-> enhanceOne(batch[k], outcomes[k])]

EnhInit ==
    /\ bookmarks = << >> /\ hook = "storage"
    /\ filterOptions = DefaultFilters
    /\ useAI = TRUE /\ autoDedupe = TRUE /\ mergeMetadata = TRUE
    /\ widget = IdleWidget /\ bwidget = IdleBrowserWidget
    /\ nextId = 1 /\ now = 8000 /\ lastOp = NoOp
    /\ nImports = 0 /\ nUiOps = 0 /\ nToggles = 0 /\ stored = None
    /\ NormIdle /\ ParseIdle /\ RaceIdle /\ SideIdle
    /\ ein \in EnhanceInputs
    /\ eout \in [1..Len(ein) -> BookmarkOutcomes]
    /\ ebatch \in BatchSizes
    /\ ei = 0 /\ eres = << >> /\ eprog = << >>
    /\ epc = "loop"

\* one turn of the for loop: the batch, the progress report, i += batchSize
EnhBatch ==
    /\ epc = "loop" /\ ei < Len(ein)
    /\ eres' = eres \o enhanceBatch(slice(ein, ei, ei + ebatch),
                                    slice(eout, ei, ei + ebatch))
    /\ eprog' = Append(eprog, progressOf(ei, ebatch, Len(ein)))
    /\ ei' = ei + ebatch
    /\ UNCHANGED <<ein, eout, ebatch, epc>>
    /\ UNCHANGED <<collVars, normVars, parseVars, raceVars, sideVars>>

\* the loop condition fails: return enhancedBookmarks
EnhReturn ==
    /\ epc = "loop" /\ ei >= Len(ein)
    /\ epc' = "done"
    /\ UNCHANGED <<ein, eout, ebatch, ei, eres, eprog>>
    /\ UNCHANGED <<collVars, normVars, parseVars, raceVars, sideVars>>

EnhNext == EnhBatch \/ EnhReturn

SpecEnhance == EnhInit /\ [][EnhNext]_vars

\* processing the k-th bookmark failed: the fallback of the fetch threw on
\* its URL, or its placeholder image could not be drawn
Failed(k) == eout[k] = "nocanvas" \/ fallbackThrows(ein[k].url, eout[k])

\* the positions of the batch the k-th bookmark is in
BatchOf(k) == {j \in 1..Len(ein) : (j - 1) \div ebatch = (k - 1) \div ebatch}

\* C16: a failure while processing one bookmark does not abort its batch:
\* the bookmark that failed is in the result with the values it came with,
\* and every other bookmark of the batch is in the result with its enhanced
\* values
C16_FailureKeepsBatch ==
    epc = "done" =>
        /\ Len(eres) = Len(ein)
        /\ \A k \in 1..Len(ein) :
              IF Failed(k) THEN eres[k] = ein[k]
              ELSE (\E j \in BatchOf(k) : Failed(j)) =>
                       eres[k] = enhanceOne(ein[k], eout[k])

\* the override keys the www-stripped hostname of url equals or ends with,
\* after a dot
OverridesOf(url) ==
    {o \in DomainOverrides :
        \/ toLowerCase(extractDomainFromUrl(url)) = o[1]
        \/ endsWith(toLowerCase(extractDomainFromUrl(url)), <<".">> \o o[1])}

ClassifyTexts == {<< >>, <<"d","o","c","s"," ","a","n","d"," ","n","e","w","s">>, <<"S","h","o","p"," ","d","o","c","s"," ","b","l","o","g">>, <<"s","t","o","r","e">>}

overridesOfUrl == [u \in AnchorUrls |-> OverridesOf(u)]

\* the classifier's answers for a URL over the titles and descriptions
classifiedAs ==
    [u \in AnchorUrls |->
        {tagBookmark(u, t, d) : t \in ClassifyTexts, d \in ClassifyTexts}]

BatchesDone == IF ei = 0 THEN 0 ELSE (ei - 1) \div ebatch + 1

\* C17: the batches are processed in input order and onProgress is called
\* once after each batch: the processed values are strictly increasing and
\* never above the total, and once the loop is over the last value is the
\* total, also when a batch failed
C17_ProgressMonotone ==
    /\ Len(eprog) = BatchesDone
    /\ \A n \in 1..Len(eprog) :
          /\ eprog[n] <= Len(ein)
          /\ n > 1 => eprog[n - 1] < eprog[n]
    /\ Len(eres) = (IF eprog = << >> THEN 0 ELSE eprog[Len(eprog)])
    /\ \A k \in 1..Len(eres) : eres[k].id = ein[k].id
    /\ (epc = "done" /\ ein # << >>) =>
          /\ eprog # << >>
          /\ eprog[Len(eprog)] = Len(ein)

\* three bookmarks in batches of two, the first batch failed: two reports,
\* 2 and then 3
C17_Witness ==
    /\ epc = "done"
    /\ Len(ein) = 3 /\ ebatch = 2
    /\ eout[1] = "nocanvas"
    /\ eprog = <<2, 3>>

\* every await of the loop settles: the fetches and the screenshots of a
\* batch resolve or reject, and the timer between two batches fires
SpecEnhanceFair == EnhInit /\ [][EnhNext]_vars /\ WF_vars(EnhNext)

\* Math.ceil(n / batchSize)
CeilDiv(n, batchSize) == (n + batchSize - 1) \div batchSize

\* C26: for a list of n bookmarks and a batchSize of at least 1, when every
\* fetch and screenshot step settles, enhanceBookmarksWithAI returns in the
\* end, after exactly ceil(n / batchSize) batches that took every bookmark
\* once, with a result of exactly the n bookmarks in input order
C26_EnhancementReturns ==
    <>[](/\ epc = "done"
         /\ ebatch >= 1
         /\ BatchesDone = CeilDiv(Len(ein), ebatch)
         /\ Len(eprog) = CeilDiv(Len(ein), ebatch)
         /\ Len(eres) = Len(ein)
         /\ \A k \in 1..Len(ein) : eres[k].id = ein[k].id /\ eres[k].url = ein[k].url)

\* three bookmarks went through in two batches of batchSize 2, the second
\* of them with a failure, and the call returned
C26_Witness ==
    /\ epc = "done"
    /\ Len(ein) = 3 /\ ebatch = 2 /\ ei = 4
    /\ eout[3] = "nocanvas"
    /\ Len(eprog) = 2 /\ Len(eres) = 3
    /\ eres[1] # ein[1] /\ eres[3] = ein[3]

(***************************************************************************)
(* Overlap harness: two runs of processFile on one mounted component, all  *)
(* switches on.  A run reads and merges into existingBookmarks when it     *)
(* starts, awaits enhanceBookmarksWithAI, and calls onImport when the      *)
(* enhancement resolves; the drop zone takes a second file in between.     *)
(***************************************************************************)
RaceDocs == {<< >>, <<1>>, <<3>>, <<4>>, <<5>>, <<3, 4>>}

\* processFile up to the await of the enhancement: parse, clean the titles,
\* dedupe against the collection the component was rendered with
raceDedupe(existing, doc, firstId, clock) ==
    LET clean(parsed) ==
            [i \in 1..Len(parsed) |->
                [parsed[i] EXCEPT !.title = cleanupTitleOf[parsed[i].title]]]
        dedupe(parsed) ==
            IF Len(existing) > 0 THEN dedupeMerge(existing, parsed, TRUE)
            ELSE [existing |-> existing, unique |-> parsed, dupes |-> << >>]
    IN  dedupe(clean(parseBookmarksHtml(doc, firstId, clock)))

\* processFile after the await: onImport with the enhanced batch; the
\* updater of addBookmarks runs on the collection of that moment
raceImport(current, unique, outcome) ==
    IF Len(unique) > 0 THEN onImport(current, enhanceBookmarksWithAI(unique, outcome))
    ELSE current

RaceInit ==
    /\ bookmarks = SubSeq(getSampleBookmarks, 1, MaxSample)
    /\ hook \in HookVersions
    /\ filterOptions = DefaultFilters
    /\ useAI = TRUE /\ autoDedupe = TRUE /\ mergeMetadata = TRUE
    /\ widget = IdleWidget /\ bwidget = IdleBrowserWidget
    /\ nextId = Len(getSampleBookmarks) + 1 /\ now = 8000 /\ lastOp = NoOp
    /\ nImports = 0 /\ nUiOps = 0 /\ nToggles = 0 /\ stored = None
    /\ NormIdle /\ ParseIdle /\ EnhIdle /\ SideIdle
    /\ rbase = bookmarks
    /\ runs \in [{1, 2} -> {[pc |-> "idle", doc |-> d, outcome |-> o, unique |-> << >>] :
                              d \in RaceDocs, o \in FetchOutcomes}]
    /\ rover = FALSE

\* a file is dropped: the run goes as far as the await of the enhancement,
\* or to its end when nothing is left to enhance
RaceStart(r) ==
    /\ runs[r].pc = "idle"
    /\ \E res \in {raceDedupe(bookmarks, runs[r].doc, nextId, now)} :
           /\ bookmarks' = res.existing
           /\ runs' = [runs EXCEPT ![r].unique = res.unique,
                                   ![r].pc = IF Len(res.unique) > 0 THEN "awaiting"
                                             ELSE "done"]
           /\ widget' =
                 IF idsDrawn(runs[r].doc) = 0
                 THEN [isProcessing |-> FALSE, isSuccess |-> FALSE,
                       error |-> Some("No bookmarks found in the HTML file"),
                       duplicatesFound |-> 0]
                 ELSE [isProcessing |-> Len(res.unique) > 0,
                       isSuccess |-> Len(res.unique) = 0,
                       error |-> None,
                       duplicatesFound |-> IF Len(bookmarks) > 0 THEN Len(res.dupes)
                                           ELSE 0]
    /\ nextId' = nextId + idsDrawn(runs[r].doc)
    /\ rover' = (rover \/ \E q \in {1, 2} : runs[q].pc = "awaiting")
    /\ UNCHANGED <<filterOptions, hook, useAI, autoDedupe, mergeMetadata, bwidget, now,
                   lastOp, nImports, nUiOps, nToggles, stored, rbase>>
    /\ UNCHANGED <<normVars, parseVars, enhVars, sideVars>>

\* the enhancement of a run resolves: onImport
RaceFinish(r) ==
    /\ runs[r].pc = "awaiting"
    /\ bookmarks' = raceImport(bookmarks, runs[r].unique, runs[r].outcome)
    /\ runs' = [runs EXCEPT ![r].pc = "done"]
    /\ widget' = [widget EXCEPT !.isSuccess = TRUE, !.isProcessing = FALSE]
    /\ UNCHANGED <<filterOptions, hook, useAI, autoDedupe, mergeMetadata, bwidget, nextId,
                   now, lastOp, nImports, nUiOps, nToggles, stored, rbase, rover>>
    /\ UNCHANGED <<normVars, parseVars, enhVars, sideVars>>

RaceNext == \E r \in {1, 2} : RaceStart(r) \/ RaceFinish(r)

SpecRace == RaceInit /\ [][RaceNext]_vars

\* the collection after the import of run `first` and then of run `second`,
\* one after the other
Sequential(first, second) ==
    LET importOne(r, firstId, res) == raceImport(res.existing, res.unique, runs[r].outcome)
        one(r, firstId, existing) ==
            importOne(r, firstId, raceDedupe(existing, runs[r].doc, firstId, now))
    IN  one(second, Len(getSampleBookmarks) + 1 + idsDrawn(runs[first].doc),
            one(first, Len(getSampleBookmarks) + 1, rbase))

\* a collection without the identifiers uuid() drew
WithoutIds(bs) == [i \in 1..Len(bs) |-> [bs[i] EXCEPT !.id = 0]]

\* C18: when a run of processFile started while the other awaited its
\* enhancement, the collection after both runs is the collection that the
\* two imports give one after the other, in one of the two orders
C18_OverlapIsSequential ==
    (rover /\ \A r \in {1, 2} : runs[r].pc = "done") =>
        \/ WithoutIds(bookmarks) = WithoutIds(Sequential(1, 2))
        \/ WithoutIds(bookmarks) = WithoutIds(Sequential(2, 1))

\* C27: in the import widget isProcessing is true in every state in which
\* a run of processFile is in flight and false once every started run has
\* settled, also when a second file is dropped while the first run is in
\* progress; isSuccess and an error are never both set
C27_ProcessingFlagTracksRuns ==
    /\ (\E r \in {1, 2} : runs[r].pc = "awaiting") => widget.isProcessing
    /\ ((\E r \in {1, 2} : runs[r].pc = "done")
           /\ \A r \in {1, 2} : runs[r].pc # "awaiting") => ~widget.isProcessing
    /\ ~(widget.isSuccess /\ widget.error # None)

(***************************************************************************)
(* Tree conversion harness: importFromBrowser on the trees the bookmarks   *)
(* API of the browser can hand over.  A node with a URL is a leaf; a       *)
(* folder has no URL and any number of children.                           *)
(***************************************************************************)
MaxNodes == 4       \* nodes of a tree of the conversion harness

ChromeLeaves ==
    { Node(Some(<<"h","t","t","p","s",":","/","/","g","i","t","h","u","b",".","c","o","m">>), <<"G","i","t","H","u","b">>, Some(9000), << >>),
      Node(Some(<<"h","t","t","p","s",":","/","/","e","x",".","c","o","m","/","a">>), << >>, None, << >>),
      Node(Some(<<"c","h","r","o","m","e",":","/","/","s","e","t","t","i","n","g","s">>), <<"S","e","t","t","i","n","g","s">>, Some(1000), << >>) }

FirefoxLeaves ==
    { FirefoxNode("bookmark", Some(<<"h","t","t","p","s",":","/","/","g","i","t","h","u","b",".","c","o","m">>), <<"G","i","t","H","u","b">>, Some(9000), << >>),
      FirefoxNode("bookmark", Some(<<"a","b","o","u","t",":","c","o","n","f","i","g">>), <<"C","o","n","f","i","g">>, Some(1000), << >>),
      FirefoxNode("separator", None, << >>, Some(1000), << >>) }

FolderOf(browser, children) ==
    IF browser = "chrome" THEN Node(None, <<"f","o","l","d","e","r">>, None, children)
    ELSE FirefoxNode("folder", None, <<"f","o","l","d","e","r">>, Some(1000), children)

\* the lists of trees with n nodes in all, and the trees with n nodes
RECURSIVE ForestsOf(_, _), TreesOf(_, _)
ForestsOf(browser, n) ==
    IF n = 0 THEN {<< >>}
    ELSE UNION { {<<t>> \o f : t \in TreesOf(browser, k), f \in ForestsOf(browser, n - k)} :
                 k \in 1..n }

TreesOf(browser, n) ==
    (IF n = 1 THEN (IF browser = "chrome" THEN ChromeLeaves ELSE FirefoxLeaves) ELSE {})
    \cup {FolderOf(browser, c) : c \in ForestsOf(browser, n - 1)}

ConvInit ==
    /\ AppIdle /\ SwIdle /\ AuthIdle /\ GridIdle
    /\ cbrowser \in {"chrome", "firefox"}
    /\ \E n \in 0..MaxNodes : ctree \in ForestsOf(cbrowser, n)
    /\ cout = None /\ cpc = "input"

\* importFromChrome: getTree, convertChromeBookmarks
ImportFromChrome ==
    /\ cpc = "input" /\ cbrowser = "chrome"
    /\ cout' = Some(convertChromeBookmarks(ctree, 1, 8000))
    /\ cpc' = "done"
    /\ UNCHANGED <<cbrowser, ctree>>
    /\ UNCHANGED <<collVars, normVars, parseVars, enhVars, raceVars, swVars, authVars, gridVars>>

\* importFromFirefox: getTree, convertFirefoxBookmarks
ImportFromFirefox ==
    /\ cpc = "input" /\ cbrowser = "firefox"
    /\ cout' = Some(convertFirefoxBookmarks(ctree, 1, 8000))
    /\ cpc' = "done"
    /\ UNCHANGED <<cbrowser, ctree>>
    /\ UNCHANGED <<collVars, normVars, parseVars, enhVars, raceVars, swVars, authVars, gridVars>>

ConvNext == ImportFromChrome \/ ImportFromFirefox

SpecConvert == ConvInit /\ [][ConvNext]_vars

\* the positions of the nodes of a tree: the indices from the top down
RECURSIVE PathsOf(_)
PathsOf(nodes) ==
    UNION { {<<i>>} \cup {<<i>> \o p : p \in PathsOf(nodes[i].children)} :
            i \in 1..Len(nodes) }

RECURSIVE NodeAt(_, _)
NodeAt(nodes, p) ==
    IF Len(p) = 1 THEN nodes[p[1]] ELSE NodeAt(nodes[p[1]].children, Tail(p))

\* p comes before q in depth-first pre-order: p is an ancestor of q, or p
\* branches off to the left of q
Before(p, q) ==
    \E i \in 1..(Len(p) + 1) :
        /\ i <= Len(q)
        /\ \A j \in 1..(i - 1) : p[j] = q[j]
        /\ i <= Len(p) => p[i] < q[i]

\* the positions of the nodes that have a URL and are not an internal page
\* of the browser
UrlPaths(browser, nodes) ==
    {p \in PathsOf(nodes) :
        /\ NodeAt(nodes, p).url # None
        /\ ~(IF browser = "chrome" THEN isInternalPage(NodeAt(nodes, p).url[1])
                ELSE isFirefoxInternalPage(NodeAt(nodes, p).url[1]))}

\* C24: the conversion of a browser tree returns a flat list with exactly
\* one bookmark for every node that has a URL and is not an internal page,
\* in depth-first pre-order and at every depth; a folder gives no bookmark,
\* and every bookmark has likes = 0 and dislikes = 0
C24_FlatPreOrder ==
    cpc = "done" =>
        /\ Len(cout[1]) = Cardinality(UrlPaths(cbrowser, ctree))
        /\ \A p \in UrlPaths(cbrowser, ctree) :
              \E k \in 1..Len(cout[1]) :
                  /\ k = 1 + Cardinality({q \in UrlPaths(cbrowser, ctree) : Before(q, p)})
                  /\ cout[1][k].url = NodeAt(ctree, p).url[1]
                  /\ cout[1][k].id = k
        /\ \A k \in 1..Len(cout[1]) :
              cout[1][k].likes = 0 /\ cout[1][k].dislikes = 0

\* a Chrome tree with a bookmark two folders down and a bookmark after the
\* outer folder was converted
C24_Witness ==
    /\ cpc = "done" /\ cbrowser = "chrome"
    /\ <<1, 1, 1>> \in UrlPaths(cbrowser, ctree)
    /\ <<2>> \in UrlPaths(cbrowser, ctree)
    /\ Len(cout[1]) = 2
    /\ cout[1][1].url = <<"h","t","t","p","s",":","/","/","e","x",".","c","o","m","/","a">>
    /\ cout[1][2].url = <<"h","t","t","p","s",":","/","/","g","i","t","h","u","b",".","c","o","m">>
    /\ cout[1][2].likes = 0

(***************************************************************************)
(* Service worker harness: the fetch listener of public/service-worker.js, *)
(* one step per promise reaction, for fetch events that overlap.           *)
(***************************************************************************)
MaxRequests == 2    \* fetch events in a run of the service worker harness

\* self.location.origin
Origin == <<"h","t","t","p","s",":","/","/","b","o","o","k","w","i","s","e",".","a","p","p">>

RootUrl == <<"h","t","t","p","s",":","/","/","b","o","o","k","w","i","s","e",".","a","p","p","/">>

AppUrl == <<"h","t","t","p","s",":","/","/","b","o","o","k","w","i","s","e",".","a","p","p","/","a","p","p",".","j","s">>

PrefixUrl == <<"h","t","t","p","s",":","/","/","b","o","o","k","w","i","s","e",".","a","p","p",".","e","v","i","l",".","c","o","m","/","a","p","p",".","j","s">>

CdnUrl == <<"h","t","t","p","s",":","/","/","c","d","n",".","e","x","a","m","p","l","e",".","c","o","m","/","l","i","b",".","j","s">>

SwUrls == {RootUrl, AppUrl, PrefixUrl, CdnUrl}

\* new URL(url).origin
originOf == [u \in SwUrls |-> ParseUrl(u).origin]

SwRequests ==
    { [url |-> RootUrl, method |-> "GET"], [url |-> AppUrl, method |-> "GET"],
      [url |-> AppUrl, method |-> "POST"], [url |-> PrefixUrl, method |-> "GET"],
      [url |-> CdnUrl, method |-> "GET"] }

\* after install: cache.addAll(ASSETS_TO_CACHE) has stored '/'
SwInit ==
    /\ AppIdle /\ ConvIdle /\ AuthIdle /\ GridIdle
    /\ cache = [u \in SwUrls |-> IF u = RootUrl THEN Some([status |-> 200, ver |-> 0])
                                  ELSE None]
    /\ reqs = << >>
    /\ netver = 0

\* the guard of the listener: event.request.url.startsWith(self.location.origin)
handles(url) == startsWith(url, Origin)

\* a fetch event is dispatched: the listener returns for a URL that does not
\* start with the origin, and calls respondWith(caches.match(...)) otherwise
SwFetchEvent(req) ==
    /\ Len(reqs) < MaxRequests
    /\ reqs' = Append(reqs, [url |-> req.url, method |-> req.method,
                             pc |-> IF handles(req.url) THEN "match" ELSE "passed",
                             response |-> None, source |-> "none"])
    /\ UNCHANGED <<cache, netver>>
    /\ UNCHANGED <<collVars, normVars, parseVars, enhVars, raceVars, convVars, authVars, gridVars>>

\* caches.match(event.request) resolves: a GET request matches the entry
\* stored under its URL
SwCachesMatch(i) ==
    /\ reqs[i].pc = "match"
    /\ reqs' = IF cache[reqs[i].url] # None /\ reqs[i].method = "GET"
               THEN [reqs EXCEPT ![i].pc = "done", ![i].source = "cache",
                                 ![i].response = cache[reqs[i].url]]
               ELSE [reqs EXCEPT ![i].pc = "fetch"]
    /\ UNCHANGED <<cache, netver>>
    /\ UNCHANGED <<collVars, normVars, parseVars, enhVars, raceVars, convVars, authVars, gridVars>>

\* fetch(event.request) resolves with a response: it is the answer, and a
\* 200 response to a GET request is cloned for cache.put
SwNetworkResponse(i, status) ==
    /\ reqs[i].pc = "fetch"
    /\ netver' = netver + 1
    /\ reqs' = [reqs EXCEPT ![i].source = "network",
                            ![i].response = Some([status |-> status, ver |-> netver + 1]),
                            ![i].pc = IF status # 200 \/ reqs[i].method # "GET"
                                      THEN "done" ELSE "put"]
    /\ UNCHANGED cache
    /\ UNCHANGED <<collVars, normVars, parseVars, enhVars, raceVars, convVars, authVars, gridVars>>

\* fetch(event.request) rejects: the offline page for a navigation, the
\* error otherwise
SwNetworkFails(i, navigate) ==
    /\ reqs[i].pc = "fetch"
    /\ reqs' = [reqs EXCEPT ![i].pc = "done",
                            ![i].source = IF navigate THEN "offline" ELSE "error"]
    /\ UNCHANGED <<cache, netver>>
    /\ UNCHANGED <<collVars, normVars, parseVars, enhVars, raceVars, convVars, authVars, gridVars>>

\* caches.open(CACHE_NAME).then(cache => cache.put(request, responseToCache))
SwCachePut(i) ==
    /\ reqs[i].pc = "put"
    /\ cache' = [cache EXCEPT ![reqs[i].url] = reqs[i].response]
    /\ reqs' = [reqs EXCEPT ![i].pc = "done"]
    /\ UNCHANGED netver
    /\ UNCHANGED <<collVars, normVars, parseVars, enhVars, raceVars, convVars, authVars, gridVars>>

SwNext ==
    \/ \E req \in SwRequests : SwFetchEvent(req)
    \/ \E i \in 1..Len(reqs) : SwCachesMatch(i)
    \/ \E i \in 1..Len(reqs), status \in {200, 404} : SwNetworkResponse(i, status)
    \/ \E i \in 1..Len(reqs), navigate \in BOOLEAN : SwNetworkFails(i, navigate)
    \/ \E i \in 1..Len(reqs) : SwCachePut(i)

SpecWorker == SwInit /\ [][SwNext]_vars

\* C28: the fetch handler writes a response into the cache only when the
\* request is same-origin, its method is GET and the network response has
\* status 200; a request that has a cached match is answered from the cache
\* without a network fetch; so a cached entry is never replaced by a later
\* response
C28_CacheWrittenOnce ==
    [][/\ \A u \in SwUrls :
             cache'[u] # cache[u] =>
                 /\ cache[u] = None
                 /\ \E i \in 1..Len(reqs) :
                       /\ reqs[i].url = u /\ reqs[i].pc = "put"
                       /\ cache'[u] = reqs[i].response
                       /\ originOf[u] = Origin
                       /\ reqs[i].method = "GET"
                       /\ reqs[i].response[1].status = 200
       /\ \A i \in 1..Len(reqs) :
             (/\ reqs[i].pc = "match" /\ reqs'[i].pc # "match"
              /\ reqs[i].method = "GET" /\ cache[reqs[i].url] # None) =>
                 /\ reqs'[i].pc = "done" /\ reqs'[i].source = "cache"
                 /\ reqs'[i].response = cache[reqs[i].url]
                 /\ netver' = netver]_vars

(***************************************************************************)
(* Auth harness: signup, login and logout of contexts/AuthContext.tsx.     *)
(* The users object is created in the body of AuthProvider, so every       *)
(* render has its own; a call uses the object of the render its caller     *)
(* was given the functions by.                                             *)
(***************************************************************************)
MaxAuthCalls == 3   \* calls of signup, login and logout in a run

Emails == {"ann@x.org", "bob@x.org"}

Usernames == {"ann", "bob"}

Passwords == {"pw1", "pw2"}

AuthInit ==
    /\ AppIdle /\ ConvIdle /\ SwIdle /\ GridIdle
    /\ users = {} /\ currentUser = None
    /\ localStore = None /\ sessionStore = None
    /\ dirty = FALSE /\ aclock = 1 /\ acalls = << >>

userToStore(user) == [id |-> user.id, email |-> user.email, username |-> user.username]

\* signup with the users object `db`: what it returns and what it leaves
signup(db, email, username, password, clock) ==
    IF (\E user \in db : user.email = email) \/ (\E user \in db : user.username = username)
    THEN [result |-> FALSE, users |-> db, set |-> FALSE, user |-> None]
    ELSE [result |-> TRUE,
          users |-> {user \in db : user.id # clock}
                        \cup {[id |-> clock, email |-> email, username |-> username,
                                password |-> password]},
          set |-> TRUE,
          user |-> Some([id |-> clock, email |-> email, username |-> username])]

Signup(email, username, password) ==
    /\ Len(acalls) < MaxAuthCalls
    /\ \E res \in {signup(users, email, username, password, aclock)} :
           /\ users' = res.users
           /\ currentUser' = IF res.set THEN res.user ELSE currentUser
           /\ localStore' = IF res.set THEN Some([user |-> res.user[1], token |-> aclock])
                             ELSE localStore
           /\ dirty' = (dirty \/ res.set)
           /\ acalls' = Append(acalls, [op |-> "signup", email |-> email,
                                        username |-> username, password |-> password,
                                        result |-> res.result])
    /\ aclock' = aclock + 1
    /\ UNCHANGED sessionStore
    /\ UNCHANGED <<collVars, normVars, parseVars, enhVars, raceVars, convVars, swVars, gridVars>>

\* Object.values(users).find(...): the first user that matches, in the
\* order the users were inserted, which is the order of their ids
find(db, emailOrUsername) ==
    LET matching == {u \in db : u.email = emailOrUsername \/ u.username = emailOrUsername}
    IN  IF matching = {} THEN None
        ELSE Some(CHOOSE u \in matching : \A v \in matching : u.id <= v.id)

login(db, emailOrUsername, password) ==
    LET check(user) ==
            IF user = None THEN [result |-> FALSE, user |-> None]
            ELSE IF user[1].password # password THEN [result |-> FALSE, user |-> None]
            ELSE [result |-> TRUE, user |-> Some(userToStore(user[1]))]
    IN  check(find(db, emailOrUsername))

Login(emailOrUsername, password, rememberMe) ==
    /\ Len(acalls) < MaxAuthCalls
    /\ \E res \in {login(users, emailOrUsername, password)} :
           /\ currentUser' = IF res.result THEN res.user ELSE currentUser
           /\ localStore' = IF res.result /\ rememberMe
                             THEN Some([user |-> res.user[1], token |-> aclock])
                             ELSE localStore
           /\ sessionStore' = IF res.result /\ ~rememberMe
                               THEN Some([user |-> res.user[1], token |-> aclock])
                               ELSE sessionStore
           /\ dirty' = (dirty \/ res.result)
           /\ acalls' = Append(acalls, [op |-> "login", email |-> emailOrUsername,
                                        username |-> emailOrUsername,
                                        password |-> password, result |-> res.result])
    /\ aclock' = aclock + 1
    /\ UNCHANGED users
    /\ UNCHANGED <<collVars, normVars, parseVars, enhVars, raceVars, convVars, swVars, gridVars>>

Logout ==
    /\ Len(acalls) < MaxAuthCalls
    /\ currentUser' = None
    /\ localStore' = None /\ sessionStore' = None
    /\ dirty' = (dirty \/ currentUser # None)
    /\ acalls' = Append(acalls, [op |-> "logout", email |-> "", username |-> "",
                                 password |-> "", result |-> TRUE])
    /\ aclock' = aclock + 1
    /\ UNCHANGED users
    /\ UNCHANGED <<collVars, normVars, parseVars, enhVars, raceVars, convVars, swVars, gridVars>>

\* AuthProvider renders again after a change of currentUser: the body runs,
\* `const users = {}` is a new object, and the context hands out functions
\* that close over it
AuthRender ==
    /\ dirty
    /\ users' = {}
    /\ dirty' = FALSE
    /\ UNCHANGED <<currentUser, localStore, sessionStore, aclock, acalls>>
    /\ UNCHANGED <<collVars, normVars, parseVars, enhVars, raceVars, convVars, swVars, gridVars>>

AuthNext ==
    \/ \E email \in Emails, username \in Usernames, password \in Passwords :
          Signup(email, username, password)
    \/ \E emailOrUsername \in Emails \cup Usernames, password \in Passwords,
          rememberMe \in BOOLEAN : Login(emailOrUsername, password, rememberMe)
    \/ Logout
    \/ AuthRender

SpecAuth == AuthInit /\ [][AuthNext]_vars

\* C29: signup returns false and leaves currentUser and the storage as they
\* were whenever an earlier successful signup registered the email or the
\* username; and after a successful signup(email, username, password) and
\* then a logout, a login with that email or username and that password
\* returns true
C29_SignupRegisters ==
    [][Len(acalls') = Len(acalls) + 1 =>
         /\ (/\ acalls'[Len(acalls')].op = "signup"
             /\ \E j \in 1..Len(acalls) :
                   /\ acalls[j].op = "signup" /\ acalls[j].result
                   /\ \/ acalls[j].email = acalls'[Len(acalls')].email
                      \/ acalls[j].username = acalls'[Len(acalls')].username) =>
                /\ ~acalls'[Len(acalls')].result
                /\ currentUser' = currentUser
                /\ localStore' = localStore /\ sessionStore' = sessionStore
         /\ (/\ Len(acalls) >= 2
             /\ acalls[Len(acalls) - 1].op = "signup" /\ acalls[Len(acalls) - 1].result
             /\ acalls[Len(acalls)].op = "logout"
             /\ acalls'[Len(acalls')].op = "login"
             /\ acalls'[Len(acalls')].email \in {acalls[Len(acalls) - 1].email,
                                                 acalls[Len(acalls) - 1].username}
             /\ acalls'[Len(acalls')].password = acalls[Len(acalls) - 1].password) =>
                acalls'[Len(acalls')].result]_vars

(***************************************************************************)
(* Grid harness: BookmarkGrid with its cards, its bulk toolbar and its     *)
(* share dialog.  The user acts on the component by clicking an element    *)
(* it renders; the callbacks onLike, onDelete, onArchive, onRemind and     *)
(* onBulkAction are the functions of useBookmarks, and their result comes  *)
(* back as the bookmarks prop.                                             *)
(***************************************************************************)
MaxCards == 2       \* bookmarks the grid is mounted with
MaxClicks == 3      \* clicks in a run

\* useState(new Set()), useState(false), useState(false)
GridMounted(bs) ==
    [bookmarks |-> bs, selection |-> {}, isSelectionMode |-> FALSE,
     shareDialogOpen |-> FALSE]

GridState ==
    [bookmarks |-> gbookmarks, selection |-> selection,
     isSelectionMode |-> isSelectionMode, shareDialogOpen |-> shareDialogOpen]

GridInit ==
    /\ AppIdle /\ ConvIdle /\ SwIdle /\ AuthIdle
    /\ gbookmarks = SubSeq(getSampleBookmarks, 1, MaxCards)
    /\ selection = {} /\ isSelectionMode = FALSE /\ shareDialogOpen = FALSE
    /\ gclicks = 0

toggleSelection(g, id, selected) ==
    LET newSelection == IF selected THEN g.selection \cup {id} ELSE g.selection \ {id}
    IN  [g EXCEPT !.selection = newSelection,
                  !.isSelectionMode = IF newSelection = {} THEN FALSE
                                      ELSE g.isSelectionMode]

handleSelectAll(g) == [g EXCEPT !.selection = IdsOf(g.bookmarks)]

handleDeselectAll(g) == [g EXCEPT !.selection = {}, !.isSelectionMode = FALSE]

\* handleBulkAction of the grid: 'export' downloads a file, 'share' opens the
\* dialog, every other action goes to onBulkAction
gridHandleBulkAction(g, action, clock) ==
    IF Cardinality(g.selection) > 0
    THEN [bookmarks |-> IF action \in {"export", "share"} THEN g.bookmarks
                        ELSE handleBulkAction(g.bookmarks, action, g.selection, clock),
          selection |-> {},
          isSelectionMode |-> FALSE,
          shareDialogOpen |-> IF action = "share" THEN TRUE ELSE g.shareDialogOpen]
    ELSE g

toggleSelectionMode(g) ==
    [g EXCEPT !.isSelectionMode = ~g.isSelectionMode,
              !.selection = IF ~g.isSelectionMode THEN {} ELSE g.selection]

\* what the component renders in a state: the buttons of every card, the
\* check box of a card when it is selectable, the toolbar in selection mode
\* (its action buttons are disabled while nothing is selected), and the
\* buttons of the share dialog while it is open
Rendered(g) ==
    {<<kind, id>> : kind \in {"like", "dislike", "archive", "remind", "delete"},
                    id \in IdsOf(g.bookmarks)}
    \cup (IF g.isSelectionMode
          THEN {<<"checkbox", id>> : id \in IdsOf(g.bookmarks)}
               \cup {<<"all", 0>>, <<"close", 0>>}
               \cup (IF Cardinality(g.selection) = 0 THEN {}
                     ELSE {<<"bulk-" \o action, 0>> :
                              action \in {"tag", "archive", "remind", "export", "delete"}})
          ELSE {})
    \cup (IF g.shareDialogOpen THEN {<<"share-html", 0>>, <<"share-close", 0>>} ELSE {})

\* the handler behind a rendered element
click(g, el, clock) ==
    CASE el[1] = "like"     -> [g EXCEPT !.bookmarks = likeBookmark(g.bookmarks, el[2], TRUE)]
      [] el[1] = "dislike"  -> [g EXCEPT !.bookmarks = likeBookmark(g.bookmarks, el[2], FALSE)]
      [] el[1] = "archive"  -> [g EXCEPT !.bookmarks = archiveBookmark(g.bookmarks, el[2])]
      [] el[1] = "remind"   -> [g EXCEPT !.bookmarks = remindBookmark(g.bookmarks, el[2], clock)]
      [] el[1] = "delete"   -> [g EXCEPT !.bookmarks = deleteBookmark(g.bookmarks, el[2])]
      [] el[1] = "checkbox" -> toggleSelection(g, el[2], el[2] \notin g.selection)
      [] el[1] = "all"      -> IF Cardinality(g.selection) > 0 THEN handleDeselectAll(g)
                               ELSE handleSelectAll(g)
      [] el[1] = "close"    -> toggleSelectionMode(g)
      [] el[1] = "bulk-tag"     -> gridHandleBulkAction(g, "tag", clock)
      [] el[1] = "bulk-archive" -> gridHandleBulkAction(g, "archive", clock)
      [] el[1] = "bulk-remind"  -> gridHandleBulkAction(g, "remind", clock)
      [] el[1] = "bulk-export"  -> gridHandleBulkAction(g, "export", clock)
      [] el[1] = "bulk-delete"  -> gridHandleBulkAction(g, "delete", clock)
      [] el[1] = "share-html"   -> gridHandleBulkAction(g, "export", clock)
      [] el[1] = "share-close"  -> [g EXCEPT !.shareDialogOpen = FALSE]

Click ==
    /\ gclicks < MaxClicks
    /\ \E el \in Rendered(GridState) : \E g \in {click(GridState, el, now)} :
           /\ gbookmarks' = g.bookmarks
           /\ selection' = g.selection
           /\ isSelectionMode' = g.isSelectionMode
           /\ shareDialogOpen' = g.shareDialogOpen
    /\ gclicks' = gclicks + 1
    /\ UNCHANGED <<collVars, normVars, parseVars, enhVars, raceVars, convVars, swVars,
                   authVars>>

GridNext == Click

SpecGrid == GridInit /\ [][GridNext]_vars

\* the states of the grid after at most n clicks on rendered elements
RECURSIVE within(_, _, _)
within(S, n, clock) ==
    IF n = 0 THEN S
    ELSE within(S \cup UNION {{click(g, el, clock) : el \in Rendered(g)} : g \in S},
                n - 1, clock)

\* C30: from the initial state of BookmarkGrid some sequence of clicks on the
\* elements the component renders reaches selection mode with a non-empty
\* selection, so that a bulk action can be invoked; and in every reachable
\* state in which selection mode is off the selection is empty
C30_SelectionModeReachable ==
    /\ \E g \in within({GridMounted(gbookmarks)}, MaxClicks, now) :
           /\ g.isSelectionMode /\ g.selection # {}
           /\ \E action \in {"tag", "archive", "remind", "export", "delete"} :
                  <<"bulk-" \o action, 0>> \in Rendered(g)
    /\ ~isSelectionMode => selection = {}

====
